---- MODULE Spec2Model ----
(***************************************************************************)
(* A model of the LacevApp feature pipeline:                               *)
(*   lacev_lib/feature_extractor.py  FeatureExtractor                      *)
(*   lacev_lib/signal_filter.py      SignalFilter                          *)
(*   main.py                         LacevAppGUI.process_single_data_file  *)
(*                                                                         *)
(* Conventions of the model                                                *)
(*  - A per-sample sequence (the signal, the HORA labels, the DATA labels) *)
(*    is piecewise constant and is written as a sequence of runs           *)
(*    [n |-> length, v |-> value]; sample k (0-based, as in Python) is the *)
(*    value of the run that covers k.                                      *)
(*  - Signal values are integers in units of 1e-9, so the epsilon 1e-9 of  *)
(*    the validity test is 1 unit; means are exact rationals.              *)
(*  - sample_rate is an integer in units of 0.01 Hz, so that the           *)
(*    truncation int(sample_rate * 60 * minutes) has something to cut.     *)
(*  - A Python string that the code parses is a sequence of 1-character    *)
(*    strings.  A Python value whose type the code tests is a record with  *)
(*    a kind field.                                                        *)
(*  - Results of the numeric estimators (antropy, nolds, scipy, pandas)    *)
(*    are symbolic terms naming the estimator and the window.              *)
(*  - A table read from a file is a record: its number of rows, the set   *)
(*    of its column names, whether its first column holds numbers, and     *)
(*    its HORA and DATA columns as runs.  A file of the output tree is a   *)
(*    record whose path is a sequence of path components.                  *)
(*  - Whether a read or a write succeeds is decided by the record io; an   *)
(*    exception takes a handler to the state its except clause leaves.     *)
(***************************************************************************)
EXTENDS Integers, Sequences, FiniteSets, TLC

VARIABLES
  \* ---- FeatureExtractor.extract_features: parameters
  data_array, segment_duration_minutes, start_time_info, start_date_info,
  class_id, class_name, sample_rate, feature_results_list, stage_info,
  \* ---- FeatureExtractor.extract_features: locals
  pc, total_data_points, points_per_segment, number_of_segments,
  current_minute_offset, i, segment_start_index, segment_end_index,
  \* ---- history of one call: the windows sliced at line 59, in order, with
  \*      the outcome of the validity test, and the list as it was on entry
  visited, entry_list,
  \* ---- which accepted segment makes an estimator raise (0: none)
  estimator_fault,
  \* ---- FeatureExtractor._adjust_minute_representation called on its own
  adjust_pc, minute_value, adjusted_minute,
  \* ---- extract_features, lines 78-106: the spectrum of one valid segment
  \*      and its five band powers (in units of frequency_resolution / 12)
  band_pc, segment_length, welch_fs, simpson_even, psd_values,
  band_indices, absolute_band_power, simpson_called,
  \* ---- LacevAppGUI.process_single_data_file: the file, the outcome of each
  \*      read and write, the locals, the output tree and the log
  file_pc, class_subdir_name, file_name_no_ext, file_class_id, input_file,
  raw_data_df, io, processed_signal_data, time_data, date_data,
  filtered_files, feature_tables, log_messages,
  \* ---- SignalFilter.apply_filters_and_save called on its own: the filter
  \*      configuration of the instance, the arguments, the position in the
  \*      call, the locals, whether the write succeeds, the exception raised,
  \*      the value returned and the files written
  filter_pc, signal_filter, raw_signal_data, sampling_frequency_float,
  signal_numpy_array, notch_filtered_signal, bandpass_filtered_signal,
  save_writable, filter_raised, filter_returned, filter_output,
  \* ---- LacevAppGUI.process_all_class_files: the raw-data tree, the list of
  \*      class directories, the position in the two loops and the locals
  batch_pc, raw_tree, class_subdirs, class_index, loop_class_id,
  directory_listing, file_index,
  \* ---- history of one batch: the files handed to process_single_data_file
  \*      and the classes handed to aggregate_and_save_class_features, in order
  calls,
  \* ---- FeatureExtractor.format_time_from_hora_column called on its own: the
  \*      position in the call, the HORA column (one entry per row),
  \*      minute_cutoff_adjustment and the locals
  hora_pc, hora_column, hora_adjustment, time_list,
  accumulated_hour_minute_str

extract_vars ==
  << data_array, segment_duration_minutes, start_time_info, start_date_info,
     class_id, class_name, sample_rate, feature_results_list, stage_info,
     pc, total_data_points, points_per_segment, number_of_segments,
     current_minute_offset, i, segment_start_index, segment_end_index,
     visited, entry_list, estimator_fault >>

adjust_vars == << adjust_pc, minute_value, adjusted_minute >>

band_vars ==
  << band_pc, segment_length, welch_fs, simpson_even, psd_values,
     band_indices, absolute_band_power, simpson_called >>

file_vars ==
  << file_pc, class_subdir_name, file_name_no_ext, file_class_id, input_file,
     raw_data_df, io, processed_signal_data, time_data, date_data,
     filtered_files, feature_tables, log_messages >>

filter_vars ==
  << filter_pc, signal_filter, raw_signal_data, sampling_frequency_float,
     signal_numpy_array, notch_filtered_signal, bandpass_filtered_signal,
     save_writable, filter_raised, filter_returned, filter_output >>

batch_vars ==
  << batch_pc, raw_tree, class_subdirs, class_index, loop_class_id,
     directory_listing, file_index, calls >>

hora_vars ==
  << hora_pc, hora_column, hora_adjustment, time_list,
     accumulated_hour_minute_str >>

vars ==
  << extract_vars, adjust_vars, band_vars, file_vars, filter_vars, batch_vars,
     hora_vars >>

-----------------------------------------------------------------------------
(* Bounds of the model *)

\* Calls whose window count exceeds this are not enumerated.
MaxSegments == 12
\* The largest argument given to _adjust_minute_representation on its own.
MaxMinuteValue == 2450
\* The most leading rows of a HORA column that hold entries that are not H:MM.
MaxIrregularRows == 3

-----------------------------------------------------------------------------
(* Program constants *)

\* feature_extractor.py:66  len(current_segment_data) > 100
MinSegmentLength == 100
\* feature_extractor.py:66  float(mean_absolute_value) > 1e-9, in units of 1e-9
MeanEpsilon == 1
\* feature_extractor.py:73  min_tsep=1305 if len(segment_array) > 1305*2
FixedMinTsep == 1305

-----------------------------------------------------------------------------
(* Run-length sequences *)

Max(a, b) == IF a >= b THEN a ELSE b
Min(a, b) == IF a <= b THEN a ELSE b
Abs(x) == IF x >= 0 THEN x ELSE -x

\* len(seq)
RECURSIVE RunsLen(_)
RunsLen(runs) ==
  IF runs = << >> THEN 0 ELSE Head(runs).n + RunsLen(Tail(runs))

\* seq[k], k 0-based and inside the sequence
RECURSIVE ElemAt(_, _)
ElemAt(runs, k) ==
  IF k < Head(runs).n THEN Head(runs).v ELSE ElemAt(Tail(runs), k - Head(runs).n)

\* How many samples of the run that starts at offset `at` lie in [s, e)
Overlap(at, n, s, e) == Max(0, Min(e, at + n) - Max(s, at))

\* sum(seq[s:e]) for 0 <= s <= e <= len(seq)
RECURSIVE SumRangeFrom(_, _, _, _)
SumRangeFrom(runs, at, s, e) ==
  IF runs = << >> THEN 0
  ELSE Overlap(at, Head(runs).n, s, e) * Head(runs).v
         + SumRangeFrom(Tail(runs), at + Head(runs).n, s, e)

SumRange(runs, s, e) == SumRangeFrom(runs, 0, s, e)

-----------------------------------------------------------------------------
(* Python values *)

PyIntValue(n)  == [kind |-> "int",  val |-> n, runs |-> << >>]
PyListValue(r) == [kind |-> "list", val |-> 0, runs |-> r]

PyFalse    == [kind |-> "bool", b |-> FALSE, s |-> ""]
PyNone     == [kind |-> "none", b |-> FALSE, s |-> ""]
PyStr(str) == [kind |-> "str",  b |-> FALSE, s |-> str]

\* The truth value `if x:` tests
Truthy(x) ==
  CASE x.kind = "bool" -> x.b
    [] x.kind = "str"  -> x.s # ""
    [] OTHER           -> FALSE

DigitValue(c) ==
  CASE c = "0" -> 0 [] c = "1" -> 1 [] c = "2" -> 2 [] c = "3" -> 3
    [] c = "4" -> 4 [] c = "5" -> 5 [] c = "6" -> 6 [] c = "7" -> 7
    [] c = "8" -> 8 [] c = "9" -> 9

RECURSIVE DigitsValue(_)
DigitsValue(s) ==
  IF s = << >> THEN 0
  ELSE 10 * DigitsValue(SubSeq(s, 1, Len(s) - 1)) + DigitValue(s[Len(s)])

Digits == {"0", "1", "2", "3", "4", "5", "6", "7", "8", "9"}

\* The characters str.strip() removes
Whitespace == {" ", "\t", "\n", "\r"}

\* s.lstrip()
RECURSIVE LStrip(_)
LStrip(s) ==
  IF s # << >> /\ Head(s) \in Whitespace THEN LStrip(Tail(s)) ELSE s

\* s.rstrip()
RECURSIVE RStrip(_)
RStrip(s) ==
  IF s # << >> /\ s[Len(s)] \in Whitespace
    THEN RStrip(SubSeq(s, 1, Len(s) - 1))
    ELSE s

\* s.strip()
Strip(s) == LStrip(RStrip(s))

\* s.replace(c, '') for every character c of removed
RemoveChars(s, removed) == SelectSeq(s, LAMBDA c : c \notin removed)

\* s.split(sep) for a separator of one character
RECURSIVE Split(_, _)
Split(s, sep) ==
  IF \A k \in 1..Len(s) : s[k] # sep THEN << s >>
  ELSE LET first == CHOOSE k \in 1..Len(s) :
                      s[k] = sep /\ \A j \in 1..(k - 1) : s[j] # sep
       IN << SubSeq(s, 1, first - 1) >> \o Split(SubSeq(s, first + 1, Len(s)), sep)

\* sep.join(parts)
RECURSIVE Join(_, _)
Join(parts, sep) ==
  IF parts = << >> THEN << >>
  ELSE IF Len(parts) = 1 THEN parts[1]
  ELSE parts[1] \o << sep >> \o Join(Tail(parts), sep)

\* int() of the digits after the sign: whether it returns (it raises ValueError
\* otherwise) and what; digit-group underscores are not in the alphabet of the
\* model's strings
ParseDigits(body, negative) ==
  LET ok == body # << >> /\ \A k \in 1..Len(body) : body[k] \in Digits
  IN IF ~ ok THEN [ok |-> FALSE, val |-> 0]
     ELSE [ok |-> TRUE,
           val |-> IF negative THEN - DigitsValue(body) ELSE DigitsValue(body)]

\* int() of a string without surrounding whitespace
ParseStripped(t) ==
  ParseDigits(IF t # << >> /\ Head(t) \in {"-", "+"} THEN Tail(t) ELSE t,
              t # << >> /\ Head(t) = "-")

\* int(s)
ParseInt(s) == ParseStripped(Strip(s))

\* int(s) for a string int() accepts
PyInt(s) == ParseInt(s).val

DigitChar(d) ==
  CASE d = 0 -> "0" [] d = 1 -> "1" [] d = 2 -> "2" [] d = 3 -> "3"
    [] d = 4 -> "4" [] d = 5 -> "5" [] d = 6 -> "6" [] d = 7 -> "7"
    [] d = 8 -> "8" [] d = 9 -> "9"

\* str(n) for n >= 0
RECURSIVE NatStr(_)
NatStr(n) ==
  IF n < 10 THEN << DigitChar(n) >>
  ELSE NatStr(n \div 10) \o << DigitChar(n % 10) >>

\* str(n)
IntStr(n) == IF n < 0 THEN << "-" >> \o NatStr(- n) ELSE NatStr(n)

\* str padded with zeros on the left to two characters
ZeroPadded(str) == IF Len(str) < 2 THEN << "0" >> \o str ELSE str

\* f"{n:02d}"
Format02d(n) == ZeroPadded(IntStr(n))

\* A variant of IntTrunc: the quotient rounded to the nearest integer
IntTrunc_Rounded(num, den) == (2 * num + den) \div (2 * den)

\* int(num / den): the float quotient cut towards zero
IntTrunc(num, den) ==
  IF num >= 0 THEN num \div den ELSE - ((- num) \div den)

-----------------------------------------------------------------------------
(* FeatureExtractor: the pure parts of extract_features *)

\* int(sample_rate * 60 * segment_duration_minutes), sample_rate in 0.01 Hz
PointsPerSegment_AtLeastOne(rate, minutes) == Max(1, (rate * 60 * minutes) \div 100)

PointsPerSegment(rate, minutes) == (rate * 60 * minutes) \div 100

\* A variant of NumberOfSegments that counts one segment more
NumberOfSegments_OneMore(total, points) == (total \div points) + 1

\* A variant of NumberOfSegments that rounds up
NumberOfSegments_RoundedUp(total, points) == (total + points - 1) \div points

\* total_data_points // points_per_segment
NumberOfSegments(total, points) == total \div points

\* int(segment_length_points // 3)
OverlapPoints(points) == points \div 3

\* A variant of SegmentStart: the next window starts where the previous one ends
SegmentStart_NoOverlap(iter, prev_end, points) ==
  IF iter = 1 THEN 0 ELSE prev_end

\* segment_start_index of iteration iter, given the previous segment_end_index
SegmentStart(iter, prev_end, points) ==
  IF iter = 1 THEN 0 ELSE prev_end - OverlapPoints(points)

\* segment_end_index before the clamp
SegmentEnd(iter, start, points) ==
  IF iter = 1 THEN points ELSE start + points

\* A variant of IsValidSegment: the test of the mean is left out
IsValidSegment_LengthOnly(len, sum) == len > MinSegmentLength

\* (len(current_segment_data) > 100) and (float(mean_absolute_value) > 1e-9),
\* the mean being sum / len with len > 0
IsValidSegment(len, sum) ==
  /\ len > MinSegmentLength
  /\ Abs(sum) > MeanEpsilon * len

\* A variant of MinTsep without the fixed separation for long segments
MinTsep_HalfOnly(len) == Max(1, (len \div 2) - 1)

\* min_tsep passed to lyap_r
MinTsep(len) ==
  IF len > FixedMinTsep * 2 THEN FixedMinTsep ELSE Max(1, (len \div 2) - 1)

_adjust_minute_representation(minute) ==
  IF minute > 60 /\ minute < 100 THEN 100
  ELSE IF minute > 160 /\ minute < 200 THEN 200
  ELSE IF minute > 2160 /\ minute < 2200 THEN 2200
  ELSE IF minute > 2359 THEN 0
  ELSE minute

\* list(map(int, start_time_info)) kept in run-length form
MapInt(runs) == [k \in 1..Len(runs) |-> [n |-> runs[k].n, v |-> PyInt(runs[k].v)]]

\* int(sum(time_segment_processed) / len(time_segment_processed))
AverageMinute(runs, start, end) ==
  IntTrunc(SumRange(MapInt(runs), start, end), end - start)

\* formatted_minute of the segment [start, end)
FormattedMinute(time_info, minute_offset, start, end) ==
  IF time_info.kind = "int" THEN minute_offset
  ELSE IF time_info.kind = "list" /\ RunsLen(time_info.runs) > end - 1
    THEN IF end - start > 0
           THEN _adjust_minute_representation(AverageMinute(time_info.runs, start, end))
           ELSE minute_offset
    ELSE minute_offset

\* The string '0/00/0000'
DatePlaceholder == << "0", "/", "0", "0", "/", "0", "0", "0", "0" >>

\* formatted_date of the segment that starts at start
FormattedDate(date_info, start) ==
  IF date_info.kind = "int" THEN DatePlaceholder
  ELSE IF date_info.kind = "list" /\ RunsLen(date_info.runs) > start
    THEN ElemAt(date_info.runs, start)
    ELSE DatePlaceholder

\* A value an estimator returned for the window [start, end)
Estimate(q, stat, tsep, start, end) ==
  [q |-> q, stat |-> stat, min_tsep |-> tsep, seg |-> << start, end >>]

\* The index of pandas' DataFrame.describe(): count, mean, std, min, quartiles, max
DescribeRows == << "count", "mean", "std", "min", "25%", "50%", "75%", "max" >>

\* describe().iloc[k]
Iloc(rows, k) == IF k >= 0 THEN rows[k + 1] ELSE rows[Len(rows) + k + 1]

\* A variant of DescribedStats: the rows taken in the order of describe()
DescribedStats_TableOrder(q, start, end) ==
  << Estimate(q, Iloc(DescribeRows, 1), 0, start, end),
     Estimate(q, Iloc(DescribeRows, 2), 0, start, end),
     Estimate(q, Iloc(DescribeRows, 3), 0, start, end),
     Estimate(q, Iloc(DescribeRows, -1), 0, start, end) >>

\* The four statistics taken from one describe() table, in the order of the code
DescribedStats(q, start, end) ==
  << Estimate(q, Iloc(DescribeRows, 1), 0, start, end),
     Estimate(q, Iloc(DescribeRows, 3), 0, start, end),
     Estimate(q, Iloc(DescribeRows, -1), 0, start, end),
     Estimate(q, Iloc(DescribeRows, 2), 0, start, end) >>

\* The list added to feature_vector at lines 138-150
NumericFields(start, end) ==
  << Estimate("approximate_entropy", "", 0, start, end),
     Estimate("detrended_fluctuation_analysis", "", 0, start, end),
     Estimate("positive_lyapunov_exponents_count", "", 0, start, end),
     Estimate("lyapunov_exponent_r", "", MinTsep(end - start), start, end),
     Estimate("absolute_band_power_low", "", 0, start, end),
     Estimate("absolute_band_power_delta", "", 0, start, end),
     Estimate("absolute_band_power_theta", "", 0, start, end),
     Estimate("absolute_band_power_alpha", "", 0, start, end),
     Estimate("absolute_band_power_beta", "", 0, start, end) >>
  \o DescribedStats("fft_description_df", start, end)
  \o DescribedStats("psd_description_df", start, end)
  \o DescribedStats("segment_data_description_df", start, end)

\* feature_vector as appended at line 152
FeatureVector(cid, cname, minute, date, stage, start, end) ==
  << cid, cname, minute, date >>
  \o (IF Truthy(stage) THEN << stage >> ELSE << >>)
  \o NumericFields(start, end)

-----------------------------------------------------------------------------
(* FeatureExtractor.save_features_to_csv: the column schema *)

feature_metric_names ==
  << "apen", "dfa", "chaos_cont_dim", "lyap_r",
     "abp_low", "abp_delta", "abp_theta", "abp_alpha", "abp_beta",
     "fft_mean", "fft_min", "fft_max", "fft_variance",
     "psd_mean", "psd_min", "psd_max", "psd_variance",
     "electrome_mean", "electrome_min", "electrome_max", "electrome_variance" >>

column_names(stage_parameter_flag) ==
  << "class_id", "class_name", "formatted_minute", "formatted_date" >>
  \o (IF stage_parameter_flag THEN << "stage_info" >> ELSE << >>)
  \o feature_metric_names

-----------------------------------------------------------------------------
(* FeatureExtractor.extract_features: the steps of one call *)

\* Lines 29-39: the guards before the loop
ExtractEnter ==
  /\ pc = "entry"
  /\ total_data_points' = RunsLen(data_array)
  /\ points_per_segment' = PointsPerSegment(sample_rate, segment_duration_minutes)
  /\ IF points_per_segment' = 0
       THEN /\ pc' = "returned"
            /\ UNCHANGED << number_of_segments, current_minute_offset >>
       ELSE /\ number_of_segments' = NumberOfSegments(total_data_points', points_per_segment')
            /\ current_minute_offset' = 0
            /\ pc' = IF total_data_points' >= points_per_segment' THEN "loop" ELSE "returned"
  /\ i' = 1
  /\ UNCHANGED << data_array, segment_duration_minutes, start_time_info,
                  start_date_info, class_id, class_name, sample_rate,
                  feature_results_list, stage_info, segment_start_index,
                  segment_end_index, visited, entry_list, estimator_fault >>
  /\ UNCHANGED << adjust_vars, band_vars, file_vars, filter_vars, batch_vars,
                  hora_vars >>

\* Lines 43-154: one iteration of the loop over range(1, number_of_segments + 1);
\* an exception of an estimator (lines 69-108) leaves the call
SegmentIteration ==
  /\ pc = "loop"
  /\ i <= number_of_segments
  /\ LET start   == SegmentStart(i, segment_end_index, points_per_segment)
         raw_end == SegmentEnd(i, start, points_per_segment)
         clamped == raw_end > total_data_points
         end     == IF clamped THEN total_data_points ELSE raw_end
         len     == end - start
         valid   == IsValidSegment(len, SumRange(data_array, start, end))
         raises  == valid /\ estimator_fault = Len(feature_results_list) - Len(entry_list) + 1
     IN /\ segment_start_index' = start
        /\ segment_end_index' = end
        /\ pc' = IF raises THEN "raised" ELSE pc
        /\ IF (clamped /\ start >= end) \/ len = 0
             THEN UNCHANGED << feature_results_list, current_minute_offset, visited >>
             ELSE /\ visited' = Append(visited, [start |-> start, end |-> end, valid |-> valid])
                  /\ IF valid /\ ~ raises
                       THEN /\ feature_results_list' =
                                 Append(feature_results_list,
                                        FeatureVector(class_id, class_name,
                                          FormattedMinute(start_time_info, current_minute_offset, start, end),
                                          FormattedDate(start_date_info, start),
                                          stage_info, start, end))
                            /\ current_minute_offset' =
                                 _adjust_minute_representation(
                                   current_minute_offset + segment_duration_minutes)
                       ELSE UNCHANGED << feature_results_list, current_minute_offset >>
  /\ i' = i + 1
  /\ UNCHANGED << data_array, segment_duration_minutes, start_time_info,
                  start_date_info, class_id, class_name, sample_rate, stage_info,
                  total_data_points, points_per_segment, number_of_segments,
                  entry_list, estimator_fault >>
  /\ UNCHANGED << adjust_vars, band_vars, file_vars, filter_vars, batch_vars,
                  hora_vars >>

\* Line 156: the loop is exhausted
ExtractReturn ==
  /\ pc = "loop"
  /\ i > number_of_segments
  /\ pc' = "returned"
  /\ UNCHANGED << data_array, segment_duration_minutes, start_time_info,
                  start_date_info, class_id, class_name, sample_rate,
                  feature_results_list, stage_info, total_data_points,
                  points_per_segment, number_of_segments, current_minute_offset,
                  i, segment_start_index, segment_end_index, visited, entry_list,
                  estimator_fault >>
  /\ UNCHANGED << adjust_vars, band_vars, file_vars, filter_vars, batch_vars,
                  hora_vars >>

-----------------------------------------------------------------------------
(* Calls of extract_features that the model enumerates *)

SampleRates == {0, 1, 3, 100, 6000}
SegmentDurations == {0, 1, 2, 3, 60, 61}
RunLengths == {7, 130, 250, 25000}
SampleValues == {-4, 0, 4}
TimeStrings == { << "0", "0", "0", "0" >>, << "0", "9", "5", "9" >>,
                 << "1", "0", "0", "0" >> }
DateStrings ==
  << << "0", "1", "/", "0", "2", "/", "2", "0", "2", "0" >>,
     << "0", "2", "/", "0", "2", "/", "2", "0", "2", "0" >> >>
RunCounts == {0, 1, 2}

\* Signals of at most two runs
SignalRuns ==
  UNION { [1..k -> [n : RunLengths, v : SampleValues]] : k \in RunCounts }

\* Per-sample label lists with the run boundaries of the signal
AlignedLists(signal, values) ==
  { [k \in 1..Len(signal) |-> [n |-> signal[k].n, v |-> choice[k]]] :
      choice \in [1..Len(signal) -> values] }

\* A list that stops one run before the signal does
ShortList(signal, value) ==
  [k \in 1..(Len(signal) - 1) |-> [n |-> signal[k].n, v |-> value]]

DateList(signal) ==
  [k \in 1..Len(signal) |-> [n |-> signal[k].n, v |-> DateStrings[k]]]

TimeInfos(signal) ==
  {PyIntValue(0)}
    \cup { PyListValue(l) : l \in AlignedLists(signal, TimeStrings) }
    \cup { PyListValue(ShortList(signal, << "1", "0", "0", "0" >>)) }

\* The date argument and the stage tag of a call
CallVariants(signal) ==
  { [date |-> PyIntValue(0), stage |-> PyFalse],
    [date |-> PyListValue(DateList(signal)), stage |-> PyStr("stage1")],
    [date |-> PyListValue(ShortList(signal, DateStrings[1])), stage |-> PyNone] }

\* The caller's list: empty, or holding the vector of an earlier call
EntryLists ==
  { << >>,
    << FeatureVector(0, "classA", 0, DatePlaceholder, PyFalse, 0, 10800) >> }

InitCall ==
  /\ data_array \in SignalRuns
  /\ sample_rate \in SampleRates
  /\ segment_duration_minutes \in SegmentDurations
  /\ LET points == PointsPerSegment(sample_rate, segment_duration_minutes)
     IN points > 0 => NumberOfSegments(RunsLen(data_array), points) <= MaxSegments
  /\ start_time_info \in TimeInfos(data_array)
  /\ \E variant \in CallVariants(data_array) :
       /\ start_date_info = variant.date
       /\ stage_info = variant.stage
  /\ class_id = 0
  /\ class_name = "classA"
  /\ feature_results_list \in EntryLists
  /\ entry_list = feature_results_list
  /\ estimator_fault = 0
  /\ pc = "entry"
  /\ total_data_points = 0
  /\ points_per_segment = 0
  /\ number_of_segments = 0
  /\ current_minute_offset = 0
  /\ i = 1
  /\ segment_start_index = 0
  /\ segment_end_index = 0
  /\ visited = << >>

\* No call of extract_features is in progress
IdleExtract ==
  /\ data_array = << >>
  /\ sample_rate = 0
  /\ segment_duration_minutes = 0
  /\ start_time_info = PyIntValue(0)
  /\ start_date_info = PyIntValue(0)
  /\ stage_info = PyFalse
  /\ class_id = 0
  /\ class_name = ""
  /\ feature_results_list = << >>
  /\ entry_list = << >>
  /\ estimator_fault = 0
  /\ pc = "idle"
  /\ total_data_points = 0
  /\ points_per_segment = 0
  /\ number_of_segments = 0
  /\ current_minute_offset = 0
  /\ i = 1
  /\ segment_start_index = 0
  /\ segment_end_index = 0
  /\ visited = << >>

IdleAdjust ==
  /\ adjust_pc = "idle"
  /\ minute_value = 0
  /\ adjusted_minute = 0

IdleBand ==
  /\ band_pc = 0
  /\ segment_length = 0
  /\ welch_fs = 0
  /\ simpson_even = "avg"
  /\ psd_values = << >>
  /\ band_indices = << >>
  /\ absolute_band_power = << >>
  /\ simpson_called = << >>

\* A table of no rows and no columns
NoDataFrame ==
  [len |-> 0, columns |-> {}, numeric |-> TRUE, HORA |-> << >>, DATA |-> << >>]

\* The result of apply_filters_and_save before it is assigned
NoSignalData == [raw |-> 0, filtered |-> << >>]

\* No file is being processed and nothing has been written
IdleFile ==
  /\ file_pc = "idle"
  /\ class_subdir_name = ""
  /\ file_name_no_ext = ""
  /\ file_class_id = 0
  /\ input_file = NoDataFrame
  /\ raw_data_df = NoDataFrame
  /\ io = [read |-> "ok", save_txt |-> TRUE, features |-> 0,
           makedirs |-> TRUE, save_csv |-> TRUE]
  /\ processed_signal_data = NoSignalData
  /\ time_data = << >>
  /\ date_data = << >>
  /\ filtered_files = {}
  /\ feature_tables = {}
  /\ log_messages = << >>

\* A value that has not been computed
Unset == [kind |-> "unset"]

\* No call of apply_filters_and_save on its own is in progress
IdleFilter ==
  /\ filter_pc = "idle"
  /\ signal_filter = [config_lowcut_freq |-> 0, config_highcut_freq |-> 0,
                      config_filter_order |-> 0]
  /\ raw_signal_data = NoDataFrame
  /\ sampling_frequency_float = 0
  /\ signal_numpy_array = Unset
  /\ notch_filtered_signal = Unset
  /\ bandpass_filtered_signal = Unset
  /\ save_writable = TRUE
  /\ filter_raised = ""
  /\ filter_returned = Unset
  /\ filter_output = {}

\* No batch is in progress
IdleBatch ==
  /\ batch_pc = "idle"
  /\ raw_tree = << >>
  /\ class_subdirs = << >>
  /\ class_index = 1
  /\ loop_class_id = 0
  /\ directory_listing = << >>
  /\ file_index = 1
  /\ calls = << >>

\* No call of format_time_from_hora_column on its own is in progress
IdleHora ==
  /\ hora_pc = "idle"
  /\ hora_column = << >>
  /\ hora_adjustment = 0
  /\ time_list = << >>
  /\ accumulated_hour_minute_str = << >>

Init ==
  InitCall /\ IdleAdjust /\ IdleBand /\ IdleFile /\ IdleFilter /\ IdleBatch
    /\ IdleHora

Next ==
  \/ ExtractEnter
  \/ SegmentIteration
  \/ ExtractReturn

\* One call of FeatureExtractor.extract_features
Spec == Init /\ [][Next]_vars

-----------------------------------------------------------------------------
(* Properties of one call of extract_features *)

Last(seq) == seq[Len(seq)]

\* The window a feature vector was computed from
SegmentOf(fv) == Last(fv).seg

\* The offset of run k of a run-length sequence
RunOffset(runs, k) == RunsLen(SubSeq(runs, 1, k - 1))

\* C1: for totalSamples >= pointsPerSegment > 0 the call visits exactly
\* floor(totalSamples / pointsPerSegment) windows; the first is
\* [0, pointsPerSegment), each later one starts floor(pointsPerSegment / 3)
\* before the end of the previous one and ends pointsPerSegment later, clamped
\* to totalSamples; 60 Hz, 3 minutes and 25000 samples give the two windows
\* [0, 10800) and [7200, 18000).
C1_Windows ==
  LET total   == RunsLen(data_array)
      points  == points_per_segment
      overlap == points \div 3
  IN (pc \in {"loop", "returned"} /\ points > 0 /\ total >= points) =>
       /\ points = (sample_rate * 60 * segment_duration_minutes) \div 100
       /\ \A k \in 1..Len(visited) :
            /\ visited[k].start = IF k = 1 THEN 0 ELSE visited[k - 1].end - overlap
            /\ visited[k].end = Min(visited[k].start + points, total)
       /\ pc = "loop" => Len(visited) = i - 1
       /\ pc = "returned" => Len(visited) = total \div points
       /\ (pc = "returned" /\ sample_rate = 6000
             /\ segment_duration_minutes = 3 /\ total = 25000) =>
            /\ points = 10800
            /\ overlap = 3600
            /\ visited = << [start |-> 0, end |-> 10800, valid |-> visited[1].valid],
                            [start |-> 7200, end |-> 18000, valid |-> visited[2].valid] >>

\* C1 witness: the call of the example has returned after its two windows
C1_Example ==
  /\ pc = "returned"
  /\ sample_rate = 6000
  /\ segment_duration_minutes = 3
  /\ RunsLen(data_array) = 25000
  /\ Len(visited) = 2

\* Every sample of the window [start, end) is 0
AllZero(start, end) ==
  \A k \in 1..Len(data_array) :
    Overlap(RunOffset(data_array, k), data_array[k].n, start, end) > 0
      => data_array[k].v = 0

\* The positions of the list that this call has filled
OwnIndices == (Len(entry_list) + 1)..Len(feature_results_list)

\* A feature vector of the window [start, end) was appended by this call
Produced(start, end) ==
  \E j \in OwnIndices :
    SegmentOf(feature_results_list[j]) = << start, end >>

\* C2: a window gets a feature vector if and only if it has more than 100
\* samples and the absolute value of its mean exceeds 1e-9; a window of zeros
\* gets none, whatever its length.
C2_Validity ==
  /\ \A k \in 1..Len(visited) :
       LET start == visited[k].start
           end   == visited[k].end
           len   == end - start
           sum   == SumRange(data_array, start, end)
       IN /\ Produced(start, end) <=> (len > 100 /\ Abs(sum) > 1 * len)
          /\ AllZero(start, end) => ~ Produced(start, end)
  /\ \A j \in OwnIndices :
       \E k \in 1..Len(visited) :
         SegmentOf(feature_results_list[j]) = << visited[k].start, visited[k].end >>

\* C2 witness: one call has accepted a window and has rejected a window of
\* more than 100 samples that are not all zero, and another of zeros
C2_AcceptedAndRejected ==
  /\ \E k \in 1..Len(visited) : Produced(visited[k].start, visited[k].end)
  /\ \E k \in 1..Len(visited) :
       /\ visited[k].end - visited[k].start > 100
       /\ ~ AllZero(visited[k].start, visited[k].end)
       /\ ~ Produced(visited[k].start, visited[k].end)

\* C4: every minute label written into a feature vector is a valid HHMM
\* value: an integer in 0..2359 whose last two decimal digits are at most 59.
C4_ValidHHMM ==
  \A j \in OwnIndices :
    LET label == feature_results_list[j][3]
    IN /\ label \in 0..2359
       /\ label % 100 <= 59

\* The sum of the integer clock values of the samples start..end-1
RECURSIVE ClockSum(_, _, _, _)
ClockSum(runs, k, start, end) ==
  IF k = 0 THEN 0
  ELSE ClockSum(runs, k - 1, start, end)
         + Overlap(RunOffset(runs, k), runs[k].n, start, end) * PyInt(runs[k].v)

\* The quotient num / den cut to an integer towards zero
Truncated(num, den) ==
  IF num >= 0 THEN num \div den ELSE - ((- num) \div den)

ColumnQuantity(column) ==
  CASE column = "apen"               -> << "approximate_entropy", "" >>
    [] column = "dfa"                -> << "detrended_fluctuation_analysis", "" >>
    [] column = "chaos_cont_dim"     -> << "positive_lyapunov_exponents_count", "" >>
    [] column = "lyap_r"             -> << "lyapunov_exponent_r", "" >>
    [] column = "abp_low"            -> << "absolute_band_power_low", "" >>
    [] column = "abp_delta"          -> << "absolute_band_power_delta", "" >>
    [] column = "abp_theta"          -> << "absolute_band_power_theta", "" >>
    [] column = "abp_alpha"          -> << "absolute_band_power_alpha", "" >>
    [] column = "abp_beta"           -> << "absolute_band_power_beta", "" >>
    [] column = "fft_mean"           -> << "fft_description_df", "mean" >>
    [] column = "fft_min"            -> << "fft_description_df", "min" >>
    [] column = "fft_max"            -> << "fft_description_df", "max" >>
    [] column = "fft_variance"       -> << "fft_description_df", "std" >>
    [] column = "psd_mean"           -> << "psd_description_df", "mean" >>
    [] column = "psd_min"            -> << "psd_description_df", "min" >>
    [] column = "psd_max"            -> << "psd_description_df", "max" >>
    [] column = "psd_variance"       -> << "psd_description_df", "std" >>
    [] column = "electrome_mean"     -> << "segment_data_description_df", "mean" >>
    [] column = "electrome_min"      -> << "segment_data_description_df", "min" >>
    [] column = "electrome_max"      -> << "segment_data_description_df", "max" >>
    [] column = "electrome_variance" -> << "segment_data_description_df", "std" >>

C11_SkipOnZero ==
  (pc # "entry" /\ (sample_rate * 60 * segment_duration_minutes) \div 100 = 0) =>
    /\ pc = "returned"
    /\ points_per_segment = 0
    /\ visited = << >>
    /\ feature_results_list = entry_list

\* C11 witness: a call on a signal that is not empty, with a list that is not
\* empty, has returned because a positive product was cut to zero points
C11_CutToZero ==
  /\ pc = "returned"
  /\ sample_rate > 0
  /\ segment_duration_minutes > 0
  /\ (sample_rate * 60 * segment_duration_minutes) \div 100 = 0
  /\ RunsLen(data_array) > 0
  /\ entry_list # << >>

\* The value of lyap_r in a feature vector: the fourth of its 21 numeric fields
LyapunovR(fv) == fv[Len(fv) - 17]

\* Segment lengths on both sides of 2 * 1305
SegmentLengths == (MinSegmentLength + 1)..(4 * FixedMinTsep)

\* The separation for every length from 101 to 5220
MinTsepLaw ==
  \A n \in SegmentLengths :
    /\ MinTsep(n) = IF n > 2610 THEN 1305
                    ELSE IF (n \div 2) - 1 >= 1 THEN (n \div 2) - 1 ELSE 1
    /\ MinTsep(n) >= 1
    /\ 2 * MinTsep(n) < n

\* C23: the feature vector of a valid segment of n samples holds the value
\* of lyap_r for min_tsep = 1305 when n > 2610 and for
\* max(1, floor(n / 2) - 1) otherwise; the separation is at least 1 and
\* less than n / 2, for the segments of the call and for every length from
\* 101 to 5220.
C23_MinTsep ==
  /\ \A j \in OwnIndices :
       LET fv   == feature_results_list[j]
           n    == SegmentOf(fv)[2] - SegmentOf(fv)[1]
           tsep == LyapunovR(fv).min_tsep
       IN /\ LyapunovR(fv).q = "lyapunov_exponent_r"
          /\ n > 100
          /\ tsep = IF n > 2610 THEN 1305
                    ELSE IF (n \div 2) - 1 >= 1 THEN (n \div 2) - 1 ELSE 1
          /\ tsep >= 1
          /\ 2 * tsep < n
  /\ MinTsepLaw

\* C23 witness: a call has returned a vector of a segment of at most 2610
\* samples, with the separation floor(n / 2) - 1, and the vector of an
\* earlier call in the list is of a longer segment
C23_ShortSegment ==
  /\ pc = "returned"
  /\ entry_list # << >>
  /\ \E j \in OwnIndices :
       LET fv == feature_results_list[j]
           n  == SegmentOf(fv)[2] - SegmentOf(fv)[1]
       IN /\ n <= 2610
          /\ LyapunovR(fv).min_tsep = (n \div 2) - 1
  /\ LyapunovR(entry_list[1]).min_tsep = 1305

\* C25: window number k of a call ends at the unclamped index
\* pointsPerSegment + (k-1) * (pointsPerSegment - overlap), which is at most
\* totalSamples, so it has exactly pointsPerSegment samples; every iteration
\* of the loop visits a window (none is discarded), the loop runs
\* numberOfSegments times, and no window reaches past the end of the last one.
C25_ClampNeverActs ==
  pc # "entry" =>
    /\ Len(visited) = i - 1
    /\ \A k \in 1..Len(visited) :
         /\ visited[k].end =
              points_per_segment
                + (k - 1) * (points_per_segment - OverlapPoints(points_per_segment))
         /\ visited[k].end <= total_data_points
         /\ visited[k].end - visited[k].start = points_per_segment
         /\ visited[k].end <= Last(visited).end
    /\ (pc = "returned" /\ points_per_segment > 0
          /\ total_data_points >= points_per_segment) =>
         Len(visited) = number_of_segments

\* C25 witness: a call has returned after three or more windows, and samples
\* after the end of the last window are in no window
C25_TailUnused ==
  /\ pc = "returned"
  /\ Len(visited) >= 3
  /\ Last(visited).end < total_data_points
  /\ total_data_points - Last(visited).end >= OverlapPoints(points_per_segment)

\* C29: every step of a call leaves the list as it is or adds one vector at
\* its end; the entries present on entry stay in place; the call appends at
\* most floor(totalSamples / pointsPerSegment) vectors; the appended vectors
\* are in increasing order of segment start index.
C29_AppendOnly ==
  /\ [][\/ feature_results_list' = feature_results_list
        \/ /\ Len(feature_results_list') = Len(feature_results_list) + 1
           /\ SubSeq(feature_results_list', 1, Len(feature_results_list))
                = feature_results_list]_vars
  /\ [](/\ Len(feature_results_list) >= Len(entry_list)
        /\ SubSeq(feature_results_list, 1, Len(entry_list)) = entry_list)
  /\ [](pc # "entry" =>
          Len(feature_results_list) - Len(entry_list)
            <= (IF points_per_segment = 0 THEN 0
                ELSE total_data_points \div points_per_segment))
  /\ [](\A j, k \in OwnIndices :
          j < k => SegmentOf(feature_results_list[j])[1]
                     < SegmentOf(feature_results_list[k])[1])

\* C29 witness: a call that was given a list with one vector has returned
\* after appending two or more vectors, fewer than it visited windows
C29_AppendedAfterEntry ==
  /\ pc = "returned"
  /\ entry_list # << >>
  /\ Len(feature_results_list) >= Len(entry_list) + 2
  /\ Len(feature_results_list) - Len(entry_list) < number_of_segments

-----------------------------------------------------------------------------
(* FeatureExtractor._adjust_minute_representation on its own *)

AdjustMinute ==
  /\ adjust_pc = "call"
  /\ adjusted_minute' = _adjust_minute_representation(minute_value)
  /\ adjust_pc' = "done"
  /\ UNCHANGED minute_value
  /\ UNCHANGED << extract_vars, band_vars, file_vars, filter_vars, batch_vars,
                  hora_vars >>

InitAdjust ==
  /\ IdleExtract
  /\ IdleBand
  /\ IdleFile
  /\ IdleFilter
  /\ IdleBatch
  /\ IdleHora
  /\ adjust_pc = "call"
  /\ minute_value \in 0..MaxMinuteValue
  /\ adjusted_minute = 0

NextAdjust == AdjustMinute

SpecAdjust == InitAdjust /\ [][NextAdjust]_vars

-----------------------------------------------------------------------------
(* extract_features, lines 78-106: the band powers of one valid segment *)

\* scipy.signal.welch: nperseg defaults to 256 and is cut to the input length
WelchNperseg == 256

Nperseg(len) == Min(WelchNperseg, len)

\* The five bands (band_low_freq, band_high_freq), in units of 0.5 Hz
BandLimits == << << 0, 1 >>, << 1, 8 >>, << 8, 16 >>, << 16, 24 >>, << 24, 60 >> >>

Bands == 1..Len(BandLimits)

\* The two-sided frequency grid of welch(..., return_onesided=False): bin k of
\* n holds FrequencyIndex(k, n) * fs / n
FrequencyIndex(k, n) == IF k <= (n - 1) \div 2 THEN k ELSE k - n

\* A variant of InBand: the upper limit is excluded
InBand_HalfOpen(k, n, fs, band) ==
  /\ FrequencyIndex(k, n) * fs >= BandLimits[band][1] * 50 * n
  /\ FrequencyIndex(k, n) * fs <  BandLimits[band][2] * 50 * n

\* np.logical_and(frequencies >= low, frequencies <= high) at bin k; fs is in
\* 0.01 Hz and the limits in 0.5 Hz, so f >= low is index*fs >= limit*50*n
InBand(k, n, fs, band) ==
  /\ FrequencyIndex(k, n) * fs >= BandLimits[band][1] * 50 * n
  /\ FrequencyIndex(k, n) * fs <= BandLimits[band][2] * 50 * n

\* band_indices_<band>, as the set of the selected bins
BandMask(n, fs, band) == { k \in 0..(n - 1) : InBand(k, n, fs, band) }

\* psd_values[band_indices]: the selected values in the order of the bins
Selected(psd, mask) ==
  [j \in 1..Cardinality(mask) |->
     psd[(CHOOSE k \in mask : Cardinality({ x \in mask : x < k }) = j - 1) + 1]]

\* Simpson's rule over an odd number of equally spaced samples, times 3 / dx
RECURSIVE BasicSimpson(_)
BasicSimpson(y) ==
  IF Len(y) < 3 THEN 0
  ELSE y[1] + 4 * y[2] + y[3] + BasicSimpson(SubSeq(y, 3, Len(y)))

\* scipy.integrate.simpson(y, dx=dx) times 12 / dx.  For an even number of
\* samples the result depends on the release: the average of the two
\* one-sided rules ("avg"), or Simpson's rule with a corrected last interval
Simpson(y, even) ==
  LET N == Len(y)
  IN IF N % 2 = 1 THEN 4 * BasicSimpson(y)
     ELSE IF N = 0 THEN 0
     ELSE IF N = 2 THEN 6 * (y[1] + y[2])
     ELSE IF even = "avg"
       THEN ( 4 * BasicSimpson(SubSeq(y, 1, N - 1)) + 6 * (y[N - 1] + y[N])
              + 6 * (y[1] + y[2]) + 4 * BasicSimpson(SubSeq(y, 2, N)) ) \div 2
       ELSE 4 * BasicSimpson(SubSeq(y, 1, N - 1))
              + 5 * y[N] + 8 * y[N - 1] - y[N - 2]

\* A variant of BandPower: the integration is not guarded
BandPower_Unguarded(psd, mask, even) ==
  [power |-> Simpson(Selected(psd, mask), even), called |-> TRUE]

\* simpson(psd_values[band_indices], dx=...) if np.any(band_indices) else 0.0
BandPower(psd, mask, even) ==
  IF mask # {}
    THEN [power |-> Simpson(Selected(psd, mask), even), called |-> TRUE]
    ELSE [power |-> 0, called |-> FALSE]

\* Lines 78-79: the spectrum welch returns, one value for each of the bins
Welch ==
  /\ band_pc = 0
  /\ \E shape \in {"flat", "peaks"} :
       psd_values' =
         [k \in 1..Nperseg(segment_length) |->
            IF shape = "flat" THEN 2
            ELSE 1 + (Abs(FrequencyIndex(k - 1, Nperseg(segment_length))) % 4)]
  /\ band_pc' = 1
  /\ UNCHANGED << segment_length, welch_fs, simpson_even, band_indices,
                  absolute_band_power, simpson_called >>
  /\ UNCHANGED << extract_vars, adjust_vars, file_vars, filter_vars, batch_vars,
                  hora_vars >>

\* Lines 88-106: the next of the five bands
BandPowerStep ==
  /\ band_pc \in Bands
  /\ LET mask   == BandMask(Len(psd_values), welch_fs, band_pc)
         result == BandPower(psd_values, mask, simpson_even)
     IN /\ band_indices' = Append(band_indices, mask)
        /\ absolute_band_power' = Append(absolute_band_power, result.power)
        /\ simpson_called' = Append(simpson_called, result.called)
  /\ band_pc' = band_pc + 1
  /\ UNCHANGED << segment_length, welch_fs, simpson_even, psd_values >>
  /\ UNCHANGED << extract_vars, adjust_vars, file_vars, filter_vars, batch_vars,
                  hora_vars >>

\* Valid segments (more than 100 samples) at sample rates from 1 Hz to 250 Hz
InitBand ==
  /\ IdleExtract
  /\ IdleAdjust
  /\ IdleFile
  /\ IdleFilter
  /\ IdleBatch
  /\ IdleHora
  /\ band_pc = 0
  /\ segment_length \in {101, 240, 10800}
  /\ welch_fs \in {100, 2000, 6000, 6400, 25000}
  /\ simpson_even \in {"avg", "corrected"}
  /\ psd_values = << >>
  /\ band_indices = << >>
  /\ absolute_band_power = << >>
  /\ simpson_called = << >>

NextBand == Welch \/ BandPowerStep

SpecBand == InitBand /\ [][NextBand]_vars

\* The frequency of bin k lies in the closed range of the band
InClosedRange(k, band) ==
  LET n    == Len(psd_values)
      num  == FrequencyIndex(k, n) * welch_fs * 2
      unit == 100 * n
  IN BandLimits[band][1] * unit <= num /\ num <= BandLimits[band][2] * unit

\* The frequency of bin k lies in the half-open range of the band
InHalfOpenRange(k, band) ==
  LET n    == Len(psd_values)
      num  == FrequencyIndex(k, n) * welch_fs * 2
      unit == 100 * n
  IN BandLimits[band][1] * unit <= num /\ num < BandLimits[band][2] * unit

Bins == 0..(Len(psd_values) - 1)

ComputedBands == 1..Len(band_indices)

\* The frequency of bin k is exactly limit / 2 Hz
OnFrequency(k, limit) ==
  FrequencyIndex(k, Len(psd_values)) * welch_fs * 2 = limit * 100 * Len(psd_values)

\* C7 as stated: the band powers integrate the PSD over the half-open ranges
\* [0,0.5), [0.5,4), [4,8), [8,12), [12,30) Hz, so every bin contributes to at
\* most one band.
C7_HalfOpenBands ==
  /\ \A band \in ComputedBands :
       band_indices[band] = { k \in Bins : InHalfOpenRange(k, band) }
  /\ \A k \in Bins :
       Cardinality({ band \in ComputedBands : k \in band_indices[band] }) <= 1

\* C7 as amended: the band powers integrate the PSD over the closed ranges
\* [0,0.5], [0.5,4], [4,8], [8,12], [12,30] Hz, so every bin contributes to at
\* most two bands: a bin on 0.5, 4, 8 or 12 Hz belongs to both bands that meet
\* there, a bin on 30 Hz to the last band, every other bin to at most one.
C7_ClosedBands ==
  /\ \A band \in ComputedBands :
       band_indices[band] = { k \in Bins : InClosedRange(k, band) }
  /\ \A k \in Bins :
       LET holders == { band \in ComputedBands : k \in band_indices[band] }
       IN /\ Cardinality(holders) <= 2
          /\ Cardinality(holders) = 2 =>
               \E band \in 1..4 :
                 /\ holders = {band, band + 1}
                 /\ OnFrequency(k, BandLimits[band][2])
          /\ (Len(band_indices) = 5 /\ OnFrequency(k, 60)) => holders = {5}

\* C7 witness: all five bands are computed, a bin on 4 Hz is in two of them
\* and a bin on 30 Hz is in the last
C7_SharedBin ==
  /\ Len(band_indices) = 5
  /\ \E k \in Bins : OnFrequency(k, 8) /\ k \in band_indices[2] \cap band_indices[3]
  /\ \E k \in Bins : OnFrequency(k, 60) /\ k \in band_indices[5]

\* C8: a band with no frequency bin inside it has band power exactly 0 and is
\* not integrated; a PSD with no bins in the beta band has beta power 0.
C8_EmptyBandZero ==
  \A band \in ComputedBands :
    (\A k \in Bins : ~ InClosedRange(k, band)) =>
      /\ absolute_band_power[band] = 0
      /\ ~ simpson_called[band]

\* C8 witness: the beta band has no bin and was not integrated, the first
\* band has bins and was
C8_EmptyBeta ==
  /\ Len(band_indices) = 5
  /\ \A k \in Bins : ~ InClosedRange(k, 5)
  /\ absolute_band_power[5] = 0
  /\ simpson_called[1]
  /\ absolute_band_power[1] > 0

-----------------------------------------------------------------------------
(* FeatureExtractor.format_time_from_hora_column *)

\* The string "0000"
ZeroTime == << "0", "0", "0", "0" >>

\* part.replace(' ', '').replace('\\', '').replace('n', '').strip()
CleanPart(part) == Strip(RemoveChars(part, {" ", "\\", "n"}))

\* The label minute_cutoff_adjustment minutes after the label read as an integer
IncrementedTime(prev_time_numeric, minute_cutoff_adjustment) ==
  LET prev_hour        == prev_time_numeric \div 100
      prev_minute      == prev_time_numeric % 100
      new_minute_total == prev_minute + minute_cutoff_adjustment
      new_hour_total   == prev_hour + (new_minute_total \div 60)
      new_minute_final == new_minute_total % 60
  IN Format02d(new_hour_total % 24) \o Format02d(new_minute_final)

\* An iteration that appends label and leaves label in accumulated_hour_minute_str
Appended(label) == [raised |-> FALSE, label |-> label, acc |-> label]

\* Lines 198-204: the label after the last one of time_list, or ValueError
\* out of the except block when that one is no integer
ExceptIncrement(prev, st, minute_cutoff_adjustment) ==
  IF ~ prev.ok THEN [raised |-> TRUE, label |-> << >>, acc |-> st.acc]
  ELSE [raised |-> FALSE,
        label |-> IncrementedTime(prev.val, minute_cutoff_adjustment),
        acc |-> st.acc]

\* The except block of one iteration.  st holds what the loop carries:
\* whether time_list is empty, its last element, and accumulated_hour_minute_str
TimeEntryExcept(st, minute_cutoff_adjustment) ==
  IF st.empty
    THEN [raised |-> FALSE, label |-> ZeroTime, acc |-> st.acc]
    ELSE ExceptIncrement(ParseInt(st.last), st, minute_cutoff_adjustment)

\* Lines 172-175: a label of three characters gets one zero in front
Padded(joined) ==
  IF Len(joined) = 3 THEN << "0" >> \o joined
  ELSE IF Len(joined) < 3 THEN << "0", "0" >> \o joined
  ELSE joined

\* Lines 167-170: minute_val_str
MinuteStr(minute_val, str) == IF minute_val < 10 THEN << "0" >> \o str ELSE str

\* Lines 184-192: the label after prev, or the except block when prev is no integer
ElseIncrement(prev, failed, minute_cutoff_adjustment) ==
  IF ~ prev.ok THEN failed
  ELSE Appended(IncrementedTime(prev.val, minute_cutoff_adjustment))

\* Lines 164-194 for the parsed hour and minute; failed is what the except
\* block does
TimeEntryParsed(hour, minute, parts, st, failed, minute_cutoff_adjustment) ==
  IF ~ hour.ok THEN failed
  ELSE IF hour.val < 24 /\ parts > 1
    THEN IF ~ minute.ok THEN failed
         ELSE Appended(Padded(IntStr(hour.val)
                                \o MinuteStr(minute.val, IntStr(minute.val))))
    ELSE IF st.acc = ZeroTime /\ st.empty THEN Appended(st.acc)
    ELSE ElseIncrement(ParseInt(IF ~ st.empty THEN st.last ELSE st.acc),
                       failed, minute_cutoff_adjustment)

\* One iteration of the loop over the HORA column, given time_parts
TimeEntryParts(time_parts, st, minute_cutoff_adjustment) ==
  TimeEntryParsed(ParseInt(CleanPart(time_parts[1])),
                  ParseInt(CleanPart(time_parts[IF Len(time_parts) > 1 THEN 2 ELSE 1])),
                  Len(time_parts), st,
                  TimeEntryExcept(st, minute_cutoff_adjustment),
                  minute_cutoff_adjustment)

\* One iteration of the loop over the HORA column
TimeEntry(time_entry, st, minute_cutoff_adjustment) ==
  TimeEntryParts(Split(time_entry, ":"), st, minute_cutoff_adjustment)

\* What the loop carries after an iteration with the result done
After(done) == [empty |-> FALSE, last |-> done.label, acc |-> done.acc]

\* The labels of a run in front of the labels of the rows after it
Prepended(run, rest) ==
  IF rest.raised THEN rest
  ELSE [raised |-> FALSE, list |-> << run >> \o rest.list]

\* The loop over a column given as runs of equal entries.  An entry whose
\* label does not depend on the previous label yields one run; any other
\* entry is taken one row at a time.
RECURSIVE FormatTimeRuns(_, _, _)
RECURSIVE FormatRun(_, _, _, _, _)
RECURSIVE FormatTaken(_, _, _, _, _)
FormatTimeRuns(runs, st, minute_cutoff_adjustment) ==
  IF runs = << >> THEN [raised |-> FALSE, list |-> << >>]
  ELSE FormatRun(Head(runs), Tail(runs), st,
                 TimeEntry(Head(runs).v, st, minute_cutoff_adjustment),
                 minute_cutoff_adjustment)

\* The rows of run, whose first row gives the result first, then the rows of
\* the runs after it
FormatRun(run, later, st, first, minute_cutoff_adjustment) ==
  IF run.n = 0 THEN FormatTimeRuns(later, st, minute_cutoff_adjustment)
  ELSE IF first.raised THEN [raised |-> TRUE, list |-> << >>]
  ELSE FormatTaken(run, later, first,
                   IF TimeEntry(run.v, After(first), minute_cutoff_adjustment) = first
                     THEN run.n ELSE 1,
                   minute_cutoff_adjustment)

\* taken rows of run get the label of first
FormatTaken(run, later, first, taken, minute_cutoff_adjustment) ==
  Prepended([n |-> taken, v |-> first.label],
            FormatTimeRuns(IF taken = run.n THEN later
                           ELSE << [n |-> run.n - 1, v |-> run.v] >> \o later,
                           After(first), minute_cutoff_adjustment))

format_time_from_hora_column(dataframe_with_time, minute_cutoff_adjustment) ==
  FormatTimeRuns(dataframe_with_time.HORA,
                 [empty |-> TRUE, last |-> << >>, acc |-> ZeroTime],
                 minute_cutoff_adjustment)

-----------------------------------------------------------------------------
(* FeatureExtractor.format_time_from_hora_column: the steps of one call *)

\* Lines 161-206: one iteration of the loop over the HORA column; a
\* ValueError out of the except block leaves the call
HoraIteration ==
  /\ hora_pc = "loop"
  /\ Len(time_list) < Len(hora_column)
  /\ LET time_entry == hora_column[Len(time_list) + 1]
         st   == [empty |-> time_list = << >>,
                  last  |-> IF time_list = << >> THEN << >> ELSE Last(time_list),
                  acc   |-> accumulated_hour_minute_str]
         done == TimeEntry(time_entry, st, hora_adjustment)
     IN IF done.raised
          THEN /\ hora_pc' = "raised"
               /\ UNCHANGED << time_list, accumulated_hour_minute_str >>
          ELSE /\ time_list' = Append(time_list, done.label)
               /\ accumulated_hour_minute_str' = done.acc
               /\ UNCHANGED hora_pc
  /\ UNCHANGED << hora_column, hora_adjustment >>
  /\ UNCHANGED << extract_vars, adjust_vars, band_vars, file_vars, filter_vars,
                  batch_vars >>

\* Line 208: the loop is exhausted
HoraReturn ==
  /\ hora_pc = "loop"
  /\ Len(time_list) = Len(hora_column)
  /\ hora_pc' = "returned"
  /\ UNCHANGED << hora_column, hora_adjustment, time_list,
                  accumulated_hour_minute_str >>
  /\ UNCHANGED << extract_vars, adjust_vars, band_vars, file_vars, filter_vars,
                  batch_vars >>

\* Entries of a HORA column: "9:05", "23:59", "930" (no colon), "25:00",
\* "nan", "-5:30" and "10:-5"
HoraTexts ==
  { << "9", ":", "0", "5" >>,
    << "2", "3", ":", "5", "9" >>,
    << "9", "3", "0" >>,
    << "2", "5", ":", "0", "0" >>,
    << "n", "a", "n" >>,
    << "-", "5", ":", "3", "0" >>,
    << "1", "0", ":", "-", "5" >> }

\* The longest HORA column of the model
MaxHoraRows == 3

\* minute_cutoff_adjustment: the 3 of process_all_class_files, and an hour
HoraAdjustments == {3, 60}

InitHora ==
  /\ IdleExtract
  /\ IdleAdjust
  /\ IdleBand
  /\ IdleFile
  /\ IdleFilter
  /\ IdleBatch
  /\ hora_pc = "loop"
  /\ hora_column \in UNION { [1..rows -> HoraTexts] : rows \in 0..MaxHoraRows }
  /\ hora_adjustment \in HoraAdjustments
  /\ time_list = << >>
  /\ accumulated_hour_minute_str = ZeroTime

NextHora ==
  \/ HoraIteration
  \/ HoraReturn

\* One call of format_time_from_hora_column
SpecHora == InitHora /\ [][NextHora]_vars

-----------------------------------------------------------------------------
(* Properties of one call of format_time_from_hora_column *)

\* C28: the call does not raise; when it has returned, the list has one
\* label per row of the column; every label is a non-empty string of
\* decimal digits.
C28_DigitLabels ==
  /\ hora_pc # "raised"
  /\ hora_pc = "returned" => Len(time_list) = Len(hora_column)
  /\ \A k \in 1..Len(time_list) :
       /\ time_list[k] # << >>
       /\ \A c \in 1..Len(time_list[k]) : time_list[k][c] \in Digits

-----------------------------------------------------------------------------
(* LacevAppGUI.process_time and LacevAppGUI.process_date *)

\* [value] * len
Repeated(value, len) == IF len = 0 THEN << >> ELSE << [n |-> len, v |-> value] >>

\* The list process_time returns, and whether it logged a warning
process_time(df, minute_segment_length) ==
  IF "HORA" \in df.columns
    THEN LET formatted == format_time_from_hora_column(df, minute_segment_length)
         IN IF formatted.raised
              THEN [list |-> Repeated(ZeroTime, df.len), warned |-> TRUE]
              ELSE [list |-> formatted.list, warned |-> FALSE]
    ELSE [list |-> Repeated(ZeroTime, df.len), warned |-> FALSE]

\* The string "00/00/0000"
DateFallback == << "0", "0", "/", "0", "0", "/", "0", "0", "0", "0" >>

\* '/'.join(clean(part) for part in str(date_val).split('-'))
FormattedDateEntry(date_val) ==
  LET parts == Split(date_val, "-")
  IN Join([k \in 1..Len(parts) |-> CleanPart(parts[k])], "/")

\* The list process_date returns; the string operations of the comprehension
\* do not raise, so its except block is not entered
process_date(df) ==
  LET date_column_name == IF "DATA" \in df.columns THEN "DATA" ELSE "DATA "
  IN IF date_column_name \in df.columns
       THEN [k \in 1..Len(df.DATA) |->
               [n |-> df.DATA[k].n, v |-> FormattedDateEntry(df.DATA[k].v)]]
       ELSE Repeated(DateFallback, df.len)

-----------------------------------------------------------------------------
(* SignalFilter *)

\* high_pass_freq, low_pass_freq (in 0.01 Hz) and filter_order of SignalFilter()
config_lowcut_freq == 5
config_highcut_freq == 3200
config_filter_order == 4

\* sample_rate of apply_filters_and_save, in 0.01 Hz
FilterSampleRate == 25000

\* len(b) = len(a) for iirnotch, a second-order section
NotchCoefficients == 3

\* len(b) = len(a) for butter(order, [low, high], btype='bandpass')
ButterCoefficients(order) == 2 * order + 1

\* The default padlen of scipy.signal.filtfilt
PadLen(ntaps) == 3 * ntaps

\* A variant of FiltfiltRejects: an input as long as the padding is accepted
FiltfiltRejects_Shorter(len, ntaps) == len < PadLen(ntaps)

\* filtfilt raises ValueError unless the input is longer than padlen
FiltfiltRejects(len, ntaps) == len <= PadLen(ntaps)

\* normalized_low_cutoff >= normalized_high_cutoff, both cutoffs divided by
\* the same positive Nyquist frequency
CutoffsRejected(sampling_frequency) ==
  config_lowcut_freq * sampling_frequency >= config_highcut_freq * sampling_frequency

\* The same test for the cutoffs of any instance: lowcut / nyquist >=
\* highcut / nyquist with nyquist = sampling_frequency / 2 > 0
NormalizedCutoffsRejected(lowcut, highcut, sampling_frequency) ==
  2 * lowcut * sampling_frequency >= 2 * highcut * sampling_frequency

\* iirnotch raises ValueError unless 0 < w0 < 1, w0 = notch / (fs / 2)
IirnotchRejects(notch_frequency, sampling_frequency) ==
  ~ (0 < 2 * notch_frequency /\ 2 * notch_frequency < sampling_frequency)

\* butter raises ValueError unless every critical frequency is in (0, 1)
ButterRejects(lowcut, highcut, sampling_frequency) ==
  ~ (0 < lowcut /\ 2 * highcut < sampling_frequency)

\* The signals a filter can return for an input of len samples: the length is
\* kept, the values are whatever the filter computes
FilteredSignals(len) ==
  { << [n |-> len, v |-> a] >> : a \in SampleValues }
    \cup { << [n |-> len \div 2, v |-> pair[1]],
              [n |-> len - (len \div 2), v |-> pair[2]] >> :
             pair \in { p \in SampleValues \X SampleValues : p[1] # p[2] } }

\* Where _save_signal_to_txt writes
FilteredPath(output_subdir_name, file_name_prefix) ==
  << "filtered", output_subdir_name, file_name_prefix, ".txt" >>

\* A variant of _save_signal_to_txt that reports success whatever happens
_save_signal_to_txt_Optimistic(writable) == "True"

\* _save_signal_to_txt: True, or the exception that np.savetxt or makedirs
\* raised
_save_signal_to_txt(writable) == IF writable THEN "True" ELSE "Exception"

\* What a call of apply_filters_and_save does before it saves: "raise" or "save"
FilterOutcome(df) ==
  IF ~ df.numeric THEN "raise"
  ELSE IF FiltfiltRejects(df.len, NotchCoefficients) THEN "raise"
  ELSE IF CutoffsRejected(FilterSampleRate) THEN "raise"
  ELSE IF FiltfiltRejects(df.len, ButterCoefficients(config_filter_order)) THEN "raise"
  ELSE "save"

-----------------------------------------------------------------------------
(* FeatureExtractor.save_features_to_csv *)

\* csv_output_path; output_identifier is given by its path components
CsvOutputPath(output_identifier, save_mode) ==
  IF save_mode = 0
    THEN << "features", "df", output_identifier, ".csv" >>
    ELSE LET parts        == output_identifier
             class_subdir == parts[1]
             file_id      == IF Len(parts) > 1 THEN parts[2] ELSE "features"
         IN << "features", class_subdir, "df_", file_id, ".csv" >>

\* What one call does: the DataFrame constructor raises when a row does not
\* have one value per column; an unknown mode returns None; when os.makedirs
\* fails (creatable is false) the handler of lines 267-269 formats
\* csv_output_path, which mode 0 has assigned (line 250) and mode 1 has not
\* (line 259 comes before line 260), so mode 1 raises UnboundLocalError out
\* of the handler; a failed to_csv returns the exception; otherwise the
\* table is written
save_features_to_csv(features, output_identifier, stage_parameter_flag, save_mode, creatable, writable) ==
  LET names == column_names(stage_parameter_flag)
      fits  == \A k \in 1..Len(features) : Len(features[k]) = Len(names)
      none  == [path |-> << >>, columns |-> << >>, rows |-> << >>]
  IN IF ~ fits THEN [outcome |-> "raise", table |-> none]
     ELSE IF save_mode \notin {0, 1} THEN [outcome |-> "None", table |-> none]
     ELSE IF ~ creatable
       THEN [outcome |-> IF save_mode = 1 THEN "raise" ELSE "Exception",
             table |-> none]
     ELSE IF ~ writable THEN [outcome |-> "Exception", table |-> none]
     ELSE [outcome |-> "DataFrame",
           table |-> [path |-> CsvOutputPath(output_identifier, save_mode),
                      columns |-> names,
                      rows |-> features]]

\* The directory tree after a file is written at table.path
Written(tree, table) ==
  { f \in tree : f.path # table.path } \cup {table}

-----------------------------------------------------------------------------
(* SignalFilter.apply_filters_and_save: the steps of one call *)

\* notch_frequency of apply_filters_and_save, in 0.01 Hz
NotchFrequency == 6000

NdArray(runs) == [kind |-> "ndarray", runs |-> runs]

\* Lines 32-47: the conversion of the argument to an array of float64
FilterEnter ==
  /\ filter_pc = "entry"
  /\ IF raw_signal_data.kind \notin {"ndarray", "Series", "DataFrame"}
       THEN /\ filter_raised' = "TypeError"
            /\ filter_pc' = "raised"
            /\ UNCHANGED signal_numpy_array
       ELSE IF ~ raw_signal_data.numeric
         THEN /\ filter_raised' = "ValueError: could not convert"
              /\ filter_pc' = "raised"
              /\ UNCHANGED signal_numpy_array
         ELSE /\ signal_numpy_array' = [kind |-> "ndarray", len |-> raw_signal_data.len]
              /\ filter_pc' = "notch"
              /\ UNCHANGED filter_raised
  /\ UNCHANGED << signal_filter, raw_signal_data, sampling_frequency_float,
                  notch_filtered_signal, bandpass_filtered_signal,
                  save_writable, filter_returned, filter_output >>
  /\ UNCHANGED << extract_vars, adjust_vars, band_vars, file_vars, batch_vars,
                  hora_vars >>

\* Lines 49 and 77-80: _apply_notch_filter
NotchFilter ==
  /\ filter_pc = "notch"
  /\ IF IirnotchRejects(NotchFrequency, sampling_frequency_float)
       THEN /\ filter_raised' = "ValueError: iirnotch"
            /\ filter_pc' = "raised"
            /\ UNCHANGED notch_filtered_signal
       ELSE IF FiltfiltRejects(signal_numpy_array.len, NotchCoefficients)
         THEN /\ filter_raised' = "ValueError: filtfilt"
              /\ filter_pc' = "raised"
              /\ UNCHANGED notch_filtered_signal
         ELSE /\ \E filtered \in FilteredSignals(signal_numpy_array.len) :
                   notch_filtered_signal' = NdArray(filtered)
              /\ filter_pc' = "bandpass"
              /\ UNCHANGED filter_raised
  /\ UNCHANGED << signal_filter, raw_signal_data, sampling_frequency_float,
                  signal_numpy_array, bandpass_filtered_signal,
                  save_writable, filter_returned, filter_output >>
  /\ UNCHANGED << extract_vars, adjust_vars, band_vars, file_vars, batch_vars,
                  hora_vars >>

\* Lines 50 and 82-97: _apply_butterworth_bandpass_filter
BandpassFilter ==
  /\ filter_pc = "bandpass"
  /\ LET lowcut  == signal_filter.config_lowcut_freq
         highcut == signal_filter.config_highcut_freq
         order   == signal_filter.config_filter_order
         len     == RunsLen(notch_filtered_signal.runs)
     IN IF NormalizedCutoffsRejected(lowcut, highcut, sampling_frequency_float)
          THEN /\ filter_raised' = "ValueError: cutoff"
               /\ filter_pc' = "raised"
               /\ UNCHANGED bandpass_filtered_signal
          ELSE IF ButterRejects(lowcut, highcut, sampling_frequency_float)
            THEN /\ filter_raised' = "ValueError: butter"
                 /\ filter_pc' = "raised"
                 /\ UNCHANGED bandpass_filtered_signal
            ELSE IF FiltfiltRejects(len, ButterCoefficients(order))
              THEN /\ filter_raised' = "ValueError: filtfilt"
                   /\ filter_pc' = "raised"
                   /\ UNCHANGED bandpass_filtered_signal
              ELSE /\ \E filtered \in FilteredSignals(len) :
                        bandpass_filtered_signal' = NdArray(filtered)
                   /\ filter_pc' = "save"
                   /\ UNCHANGED filter_raised
  /\ UNCHANGED << signal_filter, raw_signal_data, sampling_frequency_float,
                  signal_numpy_array, notch_filtered_signal,
                  save_writable, filter_returned, filter_output >>
  /\ UNCHANGED << extract_vars, adjust_vars, band_vars, file_vars, batch_vars,
                  hora_vars >>

\* Lines 52-75 and 99-111: _save_signal_to_txt and the value returned
SaveSignal ==
  /\ filter_pc = "save"
  /\ IF _save_signal_to_txt(save_writable) = "True"
       THEN /\ filter_output' =
                 Written(filter_output,
                         [path    |-> FilteredPath("classA", "rec1"),
                          samples |-> RunsLen(bandpass_filtered_signal.runs)])
            /\ filter_returned' = [kind |-> "list", raw |-> signal_numpy_array,
                                   filtered |-> bandpass_filtered_signal]
       ELSE /\ filter_returned' = PyNone
            /\ UNCHANGED filter_output
  /\ filter_pc' = "returned"
  /\ UNCHANGED << signal_filter, raw_signal_data, sampling_frequency_float,
                  signal_numpy_array, notch_filtered_signal,
                  bandpass_filtered_signal, save_writable, filter_raised >>
  /\ UNCHANGED << extract_vars, adjust_vars, band_vars, file_vars, batch_vars,
                  hora_vars >>

\* The instances and calls that the model enumerates: cutoffs in 0.01 Hz
FilterConfigs ==
  [config_lowcut_freq : {0, config_lowcut_freq, config_highcut_freq},
   config_highcut_freq : {config_lowcut_freq, config_highcut_freq, 20000},
   config_filter_order : {config_filter_order}]

FilterArguments ==
  [kind : {"ndarray", "Series", "DataFrame", "list"}, len : {5, 20, 28, 130},
   numeric : BOOLEAN]

FilterSampleRates == {FilterSampleRate, 10000}

InitFilter ==
  /\ IdleExtract
  /\ IdleAdjust
  /\ IdleBand
  /\ IdleFile
  /\ IdleBatch
  /\ IdleHora
  /\ filter_pc = "entry"
  /\ signal_filter \in FilterConfigs
  /\ raw_signal_data \in FilterArguments
  /\ raw_signal_data.kind \in {"ndarray", "list"} => raw_signal_data.numeric
  /\ sampling_frequency_float \in FilterSampleRates
  /\ signal_numpy_array = Unset
  /\ notch_filtered_signal = Unset
  /\ bandpass_filtered_signal = Unset
  /\ save_writable \in BOOLEAN
  /\ filter_raised = ""
  /\ filter_returned = Unset
  /\ filter_output = {}

NextFilter ==
  \/ FilterEnter
  \/ NotchFilter
  \/ BandpassFilter
  \/ SaveSignal

\* One call of SignalFilter.apply_filters_and_save
SpecFilter == InitFilter /\ [][NextFilter]_vars

\* C12: when the normalized low cutoff is not strictly less than the
\* normalized high cutoff, the configuration error is raised before the notch
\* or the bandpass filter has been applied to the signal, and no filtered
\* artifact is written.
C12_FailFast ==
  (/\ raw_signal_data.kind = "DataFrame"
   /\ raw_signal_data.numeric
   /\ NormalizedCutoffsRejected(signal_filter.config_lowcut_freq,
                                signal_filter.config_highcut_freq,
                                sampling_frequency_float)) =>
    /\ notch_filtered_signal = Unset
    /\ bandpass_filtered_signal = Unset
    /\ filter_output = {}
    /\ filter_pc = "raised" => filter_raised = "ValueError: cutoff"

-----------------------------------------------------------------------------
(* LacevAppGUI.process_single_data_file: the steps of one call *)

\* minute_segment_length of process_all_class_files
minute_segment_length == 3

\* sample_rate passed to extract_features, in 0.01 Hz
ExtractSampleRate == 6000

\* log_message(text, level)
Logged(log, level, event) == Append(log, [level |-> level, event |-> event])

\* A variant of IsEmptyFrame that looks at the columns only
IsEmptyFrame_ColumnsOnly(df) == df.columns = {}

\* Line 342: raw_data_df.empty, no columns, or an empty first column
IsEmptyFrame(df) == df.len = 0 \/ df.columns = {}

\* Lines 334-344 and the handlers of lines 389-394 for read_csv
ReadFile ==
  /\ file_pc = "read"
  /\ LET log == Logged(log_messages, "info", "Reading")
     IN CASE io.read = "EmptyDataError" ->
               /\ log_messages' = Logged(log, "warning", "empty or unreadable")
               /\ file_pc' = "done"
               /\ UNCHANGED raw_data_df
          [] io.read = "FileNotFoundError" ->
               /\ log_messages' = Logged(log, "error", "File not found")
               /\ file_pc' = "done"
               /\ UNCHANGED raw_data_df
          [] io.read = "ParserError" ->
               /\ log_messages' = Logged(log, "error", "Critical error")
               /\ file_pc' = "done"
               /\ UNCHANGED raw_data_df
          [] OTHER ->
               /\ raw_data_df' = input_file
               /\ IF IsEmptyFrame(input_file)
                    THEN /\ log_messages' = Logged(log, "warning", "empty")
                         /\ file_pc' = "done"
                    ELSE /\ log_messages' = log
                         /\ file_pc' = "filter"
  /\ UNCHANGED << class_subdir_name, file_name_no_ext, file_class_id, input_file,
                  io, processed_signal_data, time_data, date_data,
                  filtered_files, feature_tables >>
  /\ UNCHANGED << extract_vars, adjust_vars, band_vars, filter_vars, batch_vars,
                  hora_vars >>

\* Lines 347-356: apply_filters_and_save and the test of its result
FilterFile ==
  /\ file_pc = "filter"
  /\ LET log == Logged(log_messages, "info", "Filtering")
     IN IF FilterOutcome(raw_data_df) = "raise"
          THEN /\ log_messages' = Logged(log, "error", "Critical error")
               /\ file_pc' = "done"
               /\ UNCHANGED << processed_signal_data, filtered_files >>
          ELSE \E filtered \in FilteredSignals(raw_data_df.len) :
                 IF _save_signal_to_txt(io.save_txt) = "True"
                   THEN /\ filtered_files' =
                             Written(filtered_files,
                                     [path |-> FilteredPath(class_subdir_name, file_name_no_ext),
                                      samples |-> RunsLen(filtered)])
                        /\ processed_signal_data' =
                             [raw |-> raw_data_df.len,
                              filtered |-> filtered]
                        /\ log_messages' = log
                        /\ file_pc' = "labels"
                   ELSE /\ log_messages' = Logged(log, "error", "Error filtering")
                        /\ file_pc' = "done"
                        /\ UNCHANGED << processed_signal_data, filtered_files >>
  /\ UNCHANGED << class_subdir_name, file_name_no_ext, file_class_id, input_file,
                  raw_data_df, io, time_data, date_data, feature_tables >>
  /\ UNCHANGED << extract_vars, adjust_vars, band_vars, filter_vars, batch_vars,
                  hora_vars >>

\* Lines 356-373: the labels and the call of extract_features
CallExtract ==
  /\ file_pc = "labels"
  /\ LET times == process_time(raw_data_df, minute_segment_length)
     IN /\ time_data' = times.list
        /\ date_data' = process_date(raw_data_df)
        /\ log_messages' =
             Logged(IF times.warned
                      THEN Logged(log_messages, "warning", "Error formatting time")
                      ELSE log_messages,
                    "info", "Extracting features")
  /\ data_array' = processed_signal_data.filtered
  /\ segment_duration_minutes' = minute_segment_length
  /\ start_time_info' = PyListValue(time_data')
  /\ start_date_info' = PyListValue(date_data')
  /\ class_id' = file_class_id
  /\ class_name' = class_subdir_name
  /\ sample_rate' = ExtractSampleRate
  /\ feature_results_list' = << >>
  /\ entry_list' = << >>
  /\ estimator_fault' = io.features
  /\ stage_info' = PyFalse
  /\ pc' = "entry"
  /\ visited' = << >>
  /\ file_pc' = "extract"
  /\ UNCHANGED << total_data_points, points_per_segment, number_of_segments,
                  current_minute_offset, i, segment_start_index, segment_end_index >>
  /\ UNCHANGED << class_subdir_name, file_name_no_ext, file_class_id, input_file,
                  raw_data_df, io, processed_signal_data, filtered_files,
                  feature_tables >>
  /\ UNCHANGED << adjust_vars, band_vars, filter_vars, batch_vars,
                  hora_vars >>

\* Lines 374-387: save_features_to_csv in mode 1 and the test of its result
SaveFeatures ==
  /\ file_pc = "extract"
  /\ pc = "returned"
  /\ LET log == Logged(log_messages, "info", "Features extracted")
         output_identifier_mode1 == << class_subdir_name, file_name_no_ext >>
         save_status == save_features_to_csv(feature_results_list,
                                             output_identifier_mode1,
                                             FALSE, 1, io.makedirs, io.save_csv)
     IN CASE save_status.outcome = "raise" ->
               /\ log_messages' = Logged(log, "error", "Critical error")
               /\ UNCHANGED feature_tables
          [] save_status.outcome = "DataFrame" ->
               /\ feature_tables' = Written(feature_tables, save_status.table)
               /\ log_messages' = Logged(log, "info", "Per-file features saved")
          [] OTHER ->
               /\ log_messages' = Logged(log, "error", "Error saving per-file features")
               /\ UNCHANGED feature_tables
  /\ file_pc' = "done"
  /\ UNCHANGED << class_subdir_name, file_name_no_ext, file_class_id, input_file,
                  raw_data_df, io, processed_signal_data, time_data, date_data,
                  filtered_files >>
  /\ UNCHANGED << extract_vars, adjust_vars, band_vars, filter_vars, batch_vars,
                  hora_vars >>

\* A variant of ExtractFailed that saves the rows computed before the exception
ExtractFailed_SavesRows ==
  /\ file_pc = "extract"
  /\ pc = "raised"
  /\ log_messages' = Logged(log_messages, "error", "Critical error")
  /\ feature_tables' =
       Written(feature_tables,
               [path    |-> CsvOutputPath(<< class_subdir_name, file_name_no_ext >>, 1),
                columns |-> column_names(FALSE),
                rows    |-> feature_results_list])
  /\ file_pc' = "done"
  /\ UNCHANGED << class_subdir_name, file_name_no_ext, file_class_id, input_file,
                  raw_data_df, io, processed_signal_data, time_data, date_data,
                  filtered_files >>
  /\ UNCHANGED << extract_vars, adjust_vars, band_vars, filter_vars, batch_vars,
                  hora_vars >>

\* A variant of ExtractFailed without the handler: the exception ends the run
ExtractFailed_Aborts ==
  /\ file_pc = "extract"
  /\ pc = "raised"
  /\ file_pc' = "done"
  /\ batch_pc' = "done"
  /\ UNCHANGED << class_subdir_name, file_name_no_ext, file_class_id, input_file,
                  raw_data_df, io, processed_signal_data, time_data, date_data,
                  filtered_files, feature_tables, log_messages >>
  /\ UNCHANGED << raw_tree, class_subdirs, class_index, loop_class_id,
                  directory_listing, file_index, calls >>
  /\ UNCHANGED << extract_vars, adjust_vars, band_vars, filter_vars,
                  hora_vars >>

\* Lines 393-394: an exception of extract_features reaches the handler
ExtractFailed ==
  /\ file_pc = "extract"
  /\ pc = "raised"
  /\ log_messages' = Logged(log_messages, "error", "Critical error")
  /\ file_pc' = "done"
  /\ UNCHANGED << class_subdir_name, file_name_no_ext, file_class_id, input_file,
                  raw_data_df, io, processed_signal_data, time_data, date_data,
                  filtered_files, feature_tables >>
  /\ UNCHANGED << extract_vars, adjust_vars, band_vars, filter_vars, batch_vars,
                  hora_vars >>

-----------------------------------------------------------------------------
(* Files that the model enumerates *)

FileRowCounts == {0, 5, 27, 28, 130, 10799, 10800, 25000, 32400}

\* Row counts for which the HORA column may hold entries that are not H:MM
IrregularRowCounts == {5, 28, 25000}

\* "9:05", "10:30", "nan" and "25:00"
HoraEntries ==
  [early   |-> << "9", ":", "0", "5" >>,
   late    |-> << "1", "0", ":", "3", "0" >>,
   missing |-> << "n", "a", "n" >>,
   beyond  |-> << "2", "5", ":", "0", "0" >>]

\* The HORA column of a file of len rows, if it has one; entries that are
\* not H:MM are in its first MaxIrregularRows rows
HoraColumns(len) ==
  { [name |-> "", runs |-> << >>],
    [name |-> "HORA", runs |-> Repeated(HoraEntries.early, len)],
    [name |-> "HORA",
     runs |-> << [n |-> len \div 2, v |-> HoraEntries.early],
                 [n |-> len - (len \div 2), v |-> HoraEntries.late] >>] }
    \cup (IF len \in IrregularRowCounts
            THEN { [name |-> "HORA",
                    runs |-> << [n |-> MaxIrregularRows, v |-> HoraEntries.missing],
                                [n |-> len - MaxIrregularRows, v |-> HoraEntries.early] >>],
                   [name |-> "HORA",
                    runs |-> << [n |-> 1, v |-> HoraEntries.early],
                                [n |-> MaxIrregularRows - 1, v |-> HoraEntries.beyond],
                                [n |-> len - MaxIrregularRows, v |-> HoraEntries.late] >>] }
            ELSE {})

\* "2020-01-02" and " 02 - 01-2020\n" with a literal backslash and n
DateEntries ==
  << << "2", "0", "2", "0", "-", "0", "1", "-", "0", "2" >>,
     << " ", "0", "2", " ", "-", " ", "0", "1", "-", "2", "0", "2", "0", "\\", "n" >> >>

\* The date column of a file: none, DATA, or DATA with a trailing blank
DateColumns(len) ==
  { [name |-> "", runs |-> << >>],
    [name |-> "DATA", runs |-> Repeated(DateEntries[1], len)],
    [name |-> "DATA ", runs |-> Repeated(DateEntries[2], len)] }

\* The files of len rows: a signal in the first column, then the labels.
\* The HORA entries are such that every label made from them is a string of
\* digits, which is what extract_features can average.
FilesOf(len) ==
  { [len     |-> len,
     columns |-> {"signal"} \cup ({hora.name, date.name} \ {""}),
     numeric |-> numeric,
     HORA    |-> hora.runs,
     DATA    |-> date.runs] :
      numeric \in BOOLEAN, hora \in HoraColumns(len), date \in DateColumns(len) }

InputFiles == UNION { FilesOf(len) : len \in FileRowCounts }

\* The accepted segment at which an estimator raises: none, the first, the
\* second
EstimatorFaults == {0, 1, 2}

\* The outcome of the read, of the estimators, of the write of the filtered
\* signal, and of os.makedirs and to_csv in save_features_to_csv (of which at
\* most one fails)
IoOutcomes ==
  { o \in [read : {"ok", "EmptyDataError", "FileNotFoundError", "ParserError"},
            save_txt : BOOLEAN, features : EstimatorFaults,
            makedirs : BOOLEAN, save_csv : BOOLEAN] :
      o.makedirs \/ o.save_csv }

InitFile ==
  /\ IdleExtract
  /\ IdleAdjust
  /\ IdleBand
  /\ IdleFilter
  /\ IdleBatch
  /\ IdleHora
  /\ file_pc = "read"
  /\ class_subdir_name = "classA"
  /\ file_name_no_ext = "rec1"
  /\ file_class_id \in {0, 1}
  /\ input_file \in InputFiles
  /\ io \in IoOutcomes
  /\ raw_data_df = NoDataFrame
  /\ processed_signal_data = NoSignalData
  /\ time_data = << >>
  /\ date_data = << >>
  /\ filtered_files = {}
  /\ feature_tables = {}
  /\ log_messages = << >>

NextFile ==
  \/ ReadFile
  \/ FilterFile
  \/ CallExtract
  \/ ExtractEnter
  \/ SegmentIteration
  \/ ExtractReturn
  \/ SaveFeatures
  \/ ExtractFailed

\* One call of LacevAppGUI.process_single_data_file
SpecFile == InitFile /\ [][NextFile]_vars

-----------------------------------------------------------------------------
(* Properties of process_single_data_file *)

\* The minute counter after k accepted segments
RECURSIVE RunningCounter(_, _)
RunningCounter(k, minutes) ==
  IF k = 0 THEN 0
  ELSE _adjust_minute_representation(RunningCounter(k - 1, minutes) + minutes)

\* The per-file tables written for the file being processed
OwnTables ==
  { t \in feature_tables :
      t.path = CsvOutputPath(<< class_subdir_name, file_name_no_ext >>, 1) }

\* C5: for a file without a HORA column, the minute label of the k-th accepted
\* segment is the running counter: 0 for the first, then advanced by the
\* segment duration and renormalized after each accepted segment only.
C5_CounterLabels ==
  (file_pc \in {"extract", "done"} /\ "HORA" \notin raw_data_df.columns) =>
    \A k \in 1..Len(feature_results_list) :
      feature_results_list[k][3] = RunningCounter(k - 1, segment_duration_minutes)

\* C10, as claimed: once a file with fewer rows than points_per_segment has
\* been processed, no feature vector was produced and its per-file table
\* exists with the header and no rows.  The file is one that can be read and
\* has numbers in its first column, and both writes succeed.
C10_HeaderOnlyTable ==
  (file_pc = "done"
     /\ input_file.len < PointsPerSegment(ExtractSampleRate, minute_segment_length)
     /\ io = [read |-> "ok", save_txt |-> TRUE, features |-> 0,
              makedirs |-> TRUE, save_csv |-> TRUE]
     /\ input_file.numeric) =>
    /\ feature_results_list = << >>
    /\ OwnTables # {}
    /\ \A t \in OwnTables : t.columns = column_names(FALSE) /\ t.rows = << >>

\* C10, amended: such a file produces no feature vector; its per-file table is
\* written exactly when the file was read, its first column is numeric, it
\* has more than 27 rows and both writes succeeded, and then the table has
\* the header and no rows.
C10_HeaderOnlyWhenFiltered ==
  (file_pc = "done"
     /\ input_file.len < PointsPerSegment(ExtractSampleRate, minute_segment_length)) =>
    /\ feature_results_list = << >>
    /\ OwnTables # {} <=>
         /\ io.read = "ok"
         /\ input_file.numeric
         /\ input_file.len > 27
         /\ io.save_txt
         /\ io.makedirs
         /\ io.save_csv
    /\ \A t \in OwnTables : t.columns = column_names(FALSE) /\ t.rows = << >>

\* A file of 28 rows has been processed and its table holds the header only
C10_ShortFileTable ==
  /\ file_pc = "done"
  /\ input_file.len = 28
  /\ \E t \in OwnTables : t.columns = column_names(FALSE) /\ t.rows = << >>

\* The step about to be taken calls save_features_to_csv for the file
SaveStep == file_pc = "extract" /\ pc = "returned"

\* C30: when os.makedirs or to_csv fails in the call of save_features_to_csv
\* for a file, the call does not raise: it returns the exception, which the
\* caller reports as "Error saving per-file features", and no table is
\* written.
C30_FailureIsReturned ==
  [][(SaveStep /\ (~ io.makedirs \/ ~ io.save_csv)) =>
       /\ save_features_to_csv(feature_results_list,
                               << class_subdir_name, file_name_no_ext >>,
                               FALSE, 1, io.makedirs, io.save_csv).outcome
            = "Exception"
       /\ Last(log_messages').event = "Error saving per-file features"
       /\ feature_tables' = feature_tables]_vars

-----------------------------------------------------------------------------
(* LacevAppGUI.process_all_class_files: the steps of one batch *)

\* str.lower() on the file extensions of the model
Lower(file_extension) ==
  CASE file_extension = ".CSV" -> ".csv"
    [] file_extension = ".TXT" -> ".txt"
    [] OTHER -> file_extension

\* glob.glob(features/<class>/*.csv): the per-file tables of a class
Glob(tree, class_subdir) ==
  { t \in tree : /\ Len(t.path) = 5
                 /\ t.path[1] = "features"
                 /\ t.path[2] = class_subdir
                 /\ t.path[5] = ".csv" }

\* The orders in which a directory listing can return a set of files
Orders(files) ==
  { order \in [1..Cardinality(files) -> files] :
      \A a, b \in 1..Cardinality(files) : a # b => order[a] # order[b] }

\* pd.concat(list_of_dfs_for_class, axis=0, ignore_index=True) of tables with
\* the same columns: the rows of each table in turn
Concat_FirstOnly(tables) ==
  IF tables = << >> THEN << >> ELSE Head(tables).rows

RECURSIVE Concat(_)
Concat(tables) ==
  IF tables = << >> THEN << >> ELSE Head(tables).rows \o Concat(Tail(tables))

\* Lines 249-263: the class list and the guard for an empty one
BatchEnter ==
  /\ batch_pc = "entry"
  /\ class_subdirs' = [k \in 1..Len(raw_tree) |-> raw_tree[k].name]
  /\ loop_class_id' = 0
  /\ class_index' = 1
  /\ IF class_subdirs' = << >>
       THEN /\ log_messages' = Logged(log_messages, "warning", "No class subdirectories")
            /\ batch_pc' = "done"
       ELSE /\ batch_pc' = "classes"
            /\ UNCHANGED log_messages
  /\ UNCHANGED << raw_tree, directory_listing, file_index, calls >>
  /\ UNCHANGED << file_pc, class_subdir_name, file_name_no_ext, file_class_id,
                  input_file, raw_data_df, io, processed_signal_data, time_data,
                  date_data, filtered_files, feature_tables >>
  /\ UNCHANGED << extract_vars, adjust_vars, band_vars, filter_vars,
                  hora_vars >>

\* Lines 265-301: the next class and the listing of its directory; a listing
\* that fails or is empty ends process_files_in_class_subdir at once
ClassIteration ==
  /\ batch_pc = "classes"
  /\ class_index <= Len(class_subdirs)
  /\ LET dir == raw_tree[class_index]
         log == Logged(log_messages, "info", "Processing class")
     IN IF dir.listing # "ok"
          THEN /\ log_messages' = Logged(log, "error", "Error listing files")
               /\ loop_class_id' = loop_class_id + 1
               /\ class_index' = class_index + 1
               /\ UNCHANGED << batch_pc, directory_listing, file_index >>
          ELSE IF dir.files = << >>
            THEN /\ log_messages' = Logged(log, "warning", "No files found")
                 /\ loop_class_id' = loop_class_id + 1
                 /\ class_index' = class_index + 1
                 /\ UNCHANGED << batch_pc, directory_listing, file_index >>
            ELSE /\ log_messages' = log
                 /\ directory_listing' = dir.files
                 /\ file_index' = 1
                 /\ batch_pc' = "files"
                 /\ UNCHANGED << loop_class_id, class_index >>
  /\ UNCHANGED << raw_tree, class_subdirs, calls >>
  /\ UNCHANGED << file_pc, class_subdir_name, file_name_no_ext, file_class_id,
                  input_file, raw_data_df, io, processed_signal_data, time_data,
                  date_data, filtered_files, feature_tables >>
  /\ UNCHANGED << extract_vars, adjust_vars, band_vars, filter_vars,
                  hora_vars >>

\* Lines 303-313: the next file of the listing; a file with a data extension
\* is handed to process_single_data_file
FileIteration ==
  /\ batch_pc = "files"
  /\ file_index <= Len(directory_listing)
  /\ LET file_item == directory_listing[file_index]
     IN IF Lower(file_item.file_extension) \in {".csv", ".txt"}
          THEN /\ log_messages' = Logged(log_messages, "info", "Processing file")
               /\ class_subdir_name' = class_subdirs[class_index]
               /\ file_name_no_ext' = file_item.file_name_no_ext
               /\ file_class_id' = loop_class_id
               /\ input_file' = file_item.file
               /\ io' = file_item.io
               /\ raw_data_df' = NoDataFrame
               /\ processed_signal_data' = NoSignalData
               /\ time_data' = << >>
               /\ date_data' = << >>
               /\ file_pc' = "read"
               /\ batch_pc' = "file"
               /\ calls' = Append(calls, [op    |-> "file",
                                          class |-> class_subdirs[class_index],
                                          index |-> file_index])
               /\ UNCHANGED file_index
          ELSE /\ file_index' = file_index + 1
               /\ UNCHANGED << batch_pc, calls, log_messages, class_subdir_name,
                               file_name_no_ext, file_class_id, input_file, io,
                               raw_data_df, processed_signal_data, time_data,
                               date_data, file_pc >>
  /\ UNCHANGED << raw_tree, class_subdirs, class_index, loop_class_id,
                  directory_listing >>
  /\ UNCHANGED << filtered_files, feature_tables >>
  /\ UNCHANGED << extract_vars, adjust_vars, band_vars, filter_vars,
                  hora_vars >>

\* Lines 310-313: process_single_data_file has returned
FileReturn ==
  /\ batch_pc = "file"
  /\ file_pc = "done"
  /\ file_index' = file_index + 1
  /\ batch_pc' = "files"
  /\ UNCHANGED << raw_tree, class_subdirs, class_index, loop_class_id,
                  directory_listing, calls >>
  /\ UNCHANGED << extract_vars, adjust_vars, band_vars, file_vars, filter_vars,
                  hora_vars >>

\* A variant of ListingExhausted that is true one file early
ListingExhausted_OneEarly == file_index >= Len(directory_listing)

\* Line 303: the loop over the listing has no file left
ListingExhausted == file_index > Len(directory_listing)

\* Lines 325 and 425-472: aggregate_and_save_class_features, then lines
\* 268-270.  The tables are read in the order glob returns them; the read of
\* the first one fails if the class directory says so.
Aggregate ==
  /\ batch_pc = "files"
  /\ ListingExhausted
  /\ LET dir     == raw_tree[class_index]
         log     == Logged(log_messages, "info", "Aggregating")
         matched == Glob(feature_tables, class_subdirs[class_index])
     IN IF matched = {}
          THEN /\ log_messages' = Logged(log, "warning", "No individual feature CSVs")
               /\ UNCHANGED feature_tables
          ELSE \E all_feature_files_in_subdir \in Orders(matched) :
                 LET list_of_dfs_for_class ==
                       IF dir.table_fault = ""
                         THEN all_feature_files_in_subdir
                         ELSE Tail(all_feature_files_in_subdir)
                     read_log ==
                       CASE dir.table_fault = "" -> log
                         [] dir.table_fault = "EmptyDataError" ->
                              Logged(log, "warning", "Feature file is empty")
                         [] OTHER -> Logged(log, "error", "Error reading feature file")
                     save_status ==
                       save_features_to_csv(Concat(list_of_dfs_for_class),
                                            NatStr(loop_class_id), FALSE, 0,
                                            TRUE, dir.save_csv)
                 IN IF list_of_dfs_for_class = << >>
                      THEN /\ log_messages' =
                                Logged(read_log, "warning", "No valid feature dataframes")
                           /\ UNCHANGED feature_tables
                      ELSE CASE save_status.outcome = "DataFrame" ->
                                  /\ feature_tables' =
                                       Written(feature_tables, save_status.table)
                                  /\ log_messages' =
                                       Logged(read_log, "info", "Aggregated features saved")
                             [] save_status.outcome = "raise" ->
                                  /\ log_messages' =
                                       Logged(read_log, "error", "Critical error during feature aggregation")
                                  /\ UNCHANGED feature_tables
                             [] OTHER ->
                                  /\ log_messages' =
                                       Logged(read_log, "error", "Error saving aggregated features")
                                  /\ UNCHANGED feature_tables
  /\ calls' = Append(calls, [op    |-> "aggregate",
                             class |-> class_subdirs[class_index],
                             index |-> 0])
  /\ loop_class_id' = loop_class_id + 1
  /\ class_index' = class_index + 1
  /\ batch_pc' = "classes"
  /\ UNCHANGED << raw_tree, class_subdirs, directory_listing, file_index >>
  /\ UNCHANGED << file_pc, class_subdir_name, file_name_no_ext, file_class_id,
                  input_file, raw_data_df, io, processed_signal_data, time_data,
                  date_data, filtered_files >>
  /\ UNCHANGED << extract_vars, adjust_vars, band_vars, filter_vars,
                  hora_vars >>

\* Line 265: the loop over the classes is exhausted
BatchReturn ==
  /\ batch_pc = "classes"
  /\ class_index > Len(class_subdirs)
  /\ batch_pc' = "done"
  /\ UNCHANGED << raw_tree, class_subdirs, class_index, loop_class_id,
                  directory_listing, file_index, calls >>
  /\ UNCHANGED << extract_vars, adjust_vars, band_vars, file_vars, filter_vars,
                  hora_vars >>

-----------------------------------------------------------------------------
(* Raw-data trees that the model enumerates *)

NoFault ==
  [read |-> "ok", save_txt |-> TRUE, features |-> 0, makedirs |-> TRUE,
   save_csv |-> TRUE]

\* Two recordings that give feature vectors: 25000 rows with a DATA column
\* (two segments) and 10800 rows with HORA and "DATA " columns (one segment)
LongRecording ==
  [len |-> 25000, columns |-> {"signal", "DATA"}, numeric |-> TRUE,
   HORA |-> << >>, DATA |-> Repeated(DateEntries[1], 25000)]

ShortRecording ==
  [len |-> 10800, columns |-> {"signal", "HORA", "DATA "}, numeric |-> TRUE,
   HORA |-> Repeated(HoraEntries.early, 10800),
   DATA |-> Repeated(DateEntries[2], 10800)]

\* A file with a header and no rows, and one whose first column is text
HeaderOnly ==
  [len |-> 0, columns |-> {"signal"}, numeric |-> TRUE, HORA |-> << >>, DATA |-> << >>]

TextColumn ==
  [len |-> 130, columns |-> {"signal"}, numeric |-> FALSE, HORA |-> << >>, DATA |-> << >>]

\* What a file of a class directory can be: its content and what goes wrong
\* while it is processed
FileKinds ==
  { [file |-> f, io |-> NoFault] :
      f \in {LongRecording, ShortRecording, HeaderOnly, TextColumn} }
    \cup { [file |-> LongRecording, io |-> fault] :
             fault \in { [NoFault EXCEPT !.read = "EmptyDataError"],
                         [NoFault EXCEPT !.save_txt = FALSE],
                         [NoFault EXCEPT !.features = 1],
                         [NoFault EXCEPT !.features = 2],
                         [NoFault EXCEPT !.save_csv = FALSE] } }

FileItem(name, extension, kind) ==
  [file_name_no_ext |-> name,
   file_extension   |-> extension,
   file             |-> kind.file,
   io               |-> kind.io]

Recordings ==
  { [file |-> LongRecording, io |-> NoFault],
    [file |-> ShortRecording, io |-> NoFault] }

\* The listings of at most two files: one data file; two data files with
\* their own names; two recordings with the same name and two extensions; a
\* file that is not a data file, alone or before a recording
Listings ==
  { << >> }
    \cup { << FileItem("rec1", ".csv", kind) >> : kind \in FileKinds }
    \cup { << FileItem("rec1", ".csv", first), FileItem("rec2", ".TXT", second) >> :
             first \in FileKinds, second \in FileKinds }
    \cup { << FileItem("rec1", ".csv", first), FileItem("rec1", ".txt", second) >> :
             first \in Recordings, second \in Recordings }
    \cup { << FileItem("notes", ".md", kind) >> : kind \in Recordings }
    \cup { << FileItem("notes", ".md", first), FileItem("rec2", ".csv", second) >> :
             first \in Recordings, second \in Recordings }

\* A class directory whose listing, table reads and table write succeed
ClassDir(name, files) ==
  [name |-> name, listing |-> "ok", files |-> files, table_fault |-> "",
   save_csv |-> TRUE]

\* The same directory with one thing going wrong for the class as a whole
ClassFaults(dir) ==
  { [dir EXCEPT !.listing = "FileNotFoundError"],
    [dir EXCEPT !.table_fault = "EmptyDataError"],
    [dir EXCEPT !.table_fault = "OSError"],
    [dir EXCEPT !.save_csv = FALSE] }

TwoRecordings ==
  << FileItem("rec1", ".csv", [file |-> LongRecording, io |-> NoFault]),
     FileItem("rec2", ".TXT", [file |-> ShortRecording, io |-> NoFault]) >>

FirstClasses ==
  { ClassDir("classA", files) : files \in Listings }
    \cup ClassFaults(ClassDir("classA", TwoRecordings))
    \cup ClassFaults(ClassDir("classA", << TwoRecordings[1] >>))

SecondClasses ==
  { ClassDir("classB", << >>), ClassDir("classB", << TwoRecordings[2] >>) }

RawTrees ==
  { << >> }
    \cup { << first >> : first \in FirstClasses }
    \cup { << first, second >> : first \in FirstClasses, second \in SecondClasses }

\* What an earlier run over another rec1 has left in the output tree
EarlierRun ==
  LET rows == << FeatureVector(0, "classA", 0, FormattedDateEntry(DateEntries[2]),
                               PyFalse, 0, 10800) >>
  IN [filtered |-> { [path    |-> FilteredPath("classA", "rec1"),
                      samples |-> 10800] },
      features |-> { [path    |-> CsvOutputPath(<< "classA", "rec1" >>, 1),
                      columns |-> column_names(FALSE),
                      rows    |-> rows],
                     [path    |-> CsvOutputPath(NatStr(0), 0),
                      columns |-> column_names(FALSE),
                      rows    |-> rows] }]

\* What an earlier run that listed classB first (class_id 0) has left for a
\* recording rec9 that is no longer in the raw data
EarlierOrder ==
  [filtered |-> {},
   features |-> { [path    |-> CsvOutputPath(<< "classB", "rec9" >>, 1),
                   columns |-> column_names(FALSE),
                   rows    |-> << FeatureVector(0, "classB", 0, DateFallback,
                                                PyFalse, 0, 10800) >>] }]

OutputTrees == { [filtered |-> {}, features |-> {}], EarlierRun, EarlierOrder }

InitBatch ==
  /\ IdleExtract
  /\ IdleAdjust
  /\ IdleBand
  /\ IdleFilter
  /\ IdleHora
  /\ batch_pc = "entry"
  /\ raw_tree \in RawTrees
  /\ class_subdirs = << >>
  /\ class_index = 1
  /\ loop_class_id = 0
  /\ directory_listing = << >>
  /\ file_index = 1
  /\ calls = << >>
  /\ file_pc = "idle"
  /\ class_subdir_name = ""
  /\ file_name_no_ext = ""
  /\ file_class_id = 0
  /\ input_file = NoDataFrame
  /\ raw_data_df = NoDataFrame
  /\ io = NoFault
  /\ processed_signal_data = NoSignalData
  /\ time_data = << >>
  /\ date_data = << >>
  /\ \E tree \in OutputTrees :
       /\ filtered_files = tree.filtered
       /\ feature_tables = tree.features
  /\ log_messages = << >>

NextBatch ==
  \/ BatchEnter
  \/ ClassIteration
  \/ FileIteration
  \/ ReadFile
  \/ FilterFile
  \/ CallExtract
  \/ ExtractEnter
  \/ SegmentIteration
  \/ ExtractReturn
  \/ ExtractFailed
  \/ SaveFeatures
  \/ FileReturn
  \/ Aggregate
  \/ BatchReturn

\* One run of LacevAppGUI.process_all_class_files
SpecBatch == InitBatch /\ [][NextBatch]_vars

-----------------------------------------------------------------------------
(* Properties of process_all_class_files *)

DataExtensions == {".csv", ".txt"}

\* The calls of process_single_data_file so far, as << class, index >> pairs
FileCalls ==
  { << calls[c].class, calls[c].index >> :
      c \in { d \in 1..Len(calls) : calls[d].op = "file" } }

\* The classes whose aggregation has run so far
AggregatedClasses ==
  { calls[c].class : c \in { d \in 1..Len(calls) : calls[d].op = "aggregate" } }

\* Every data file of every class directory that could be listed was handed
\* to process_single_data_file
AllFilesCalled ==
  \A k \in 1..Len(raw_tree) :
    raw_tree[k].listing = "ok" =>
      \A index \in 1..Len(raw_tree[k].files) :
        Lower(raw_tree[k].files[index].file_extension) \in DataExtensions
          => << raw_tree[k].name, index >> \in FileCalls

\* The file being processed was read and filtered, and the write of its
\* filtered signal has failed
ArtifactWriteFailed ==
  /\ batch_pc = "file"
  /\ ~ io.save_txt
  /\ io.read = "ok"
  /\ input_file.len > 0
  /\ FilterOutcome(input_file) = "save"

\* The per-file table of the file of name `name` in class `class`
TablesOf(class, name) ==
  { t \in feature_tables : t.path = CsvOutputPath(<< class, name >>, 1) }

\* C13: when the write of the filtered signal fails, apply_filters_and_save
\* returns its failure value instead of raising (the caller logs "Error
\* filtering", not the handler of an exception); no step of that file then
\* calls extract_features or changes a table or a filtered artifact; and the
\* batch ends with every data file of the class handed to
\* process_single_data_file.
C13_WriteFailureSkipsFile ==
  /\ [](ArtifactWriteFailed /\ file_pc = "done" =>
          Last(log_messages) = [level |-> "error", event |-> "Error filtering"])
  /\ [][ArtifactWriteFailed =>
          /\ feature_tables' = feature_tables
          /\ filtered_files' = filtered_files
          /\ file_pc' # "extract"
          /\ pc' = pc]_vars
  /\ [](batch_pc = "done" => AllFilesCalled)

\* C13 witness: the batch is over; the write failed for the first file of a
\* class, which has no table, and the second file has its table
C13_NextFileProcessed ==
  /\ batch_pc = "done"
  /\ raw_tree # << >>
  /\ Len(raw_tree[1].files) = 2
  /\ ~ raw_tree[1].files[1].io.save_txt
  /\ TablesOf("classA", "rec1") = {}
  /\ \E t \in TablesOf("classA", "rec2") : t.rows # << >>

\* The step about to be taken is aggregate_and_save_class_features
AggregateStep ==
  /\ batch_pc = "files"
  /\ file_index > Len(directory_listing)

\* The per-file tables that glob finds for the class being aggregated
Matched == Glob(feature_tables, class_subdirs[class_index])

\* The number of rows of a set of tables
RECURSIVE SumRows(_)
SumRows(tables) ==
  IF tables = {} THEN 0
  ELSE LET t == CHOOSE u \in tables : TRUE
       IN Len(t.rows) + SumRows(tables \ {t})

\* The row counts that the tables which could be read can add up to: all
\* matched tables, or all but the one whose read failed
ReadableSums ==
  IF raw_tree[class_index].table_fault = ""
    THEN { SumRows(Matched) }
    ELSE { SumRows(Matched \ {u}) : u \in Matched }

\* How many of the matched tables can be read
ReadableCount ==
  IF Matched = {} THEN 0
  ELSE Cardinality(Matched) - (IF raw_tree[class_index].table_fault = "" THEN 0 ELSE 1)

\* The per-class tables of class number id
ClassTables(tree, id) == { t \in tree : t.path = CsvOutputPath(NatStr(id), 0) }

\* One per-class table: the sum of the row counts, the columns of the
\* per-file tables
SummedTable(before, after) ==
  /\ Cardinality(ClassTables(after, loop_class_id)) = 1
  /\ \A t \in ClassTables(after, loop_class_id) :
       /\ Len(t.rows) \in ReadableSums
       /\ \A m \in Glob(before, class_subdirs[class_index]) : t.columns = m.columns

\* What a step has added to the log after its first message
Reported(before, after) ==
  { after[k] : k \in (Len(before) + 2)..Len(after) }

\* C14, as claimed: aggregation of N >= 1 readable per-file tables writes one
\* per-class table with the sum of their row counts and their column order
\* (if the write succeeds); with no readable table it writes nothing and
\* reports a warning and nothing else.
C14_SumOrWarningOnly ==
  [][AggregateStep =>
       IF ReadableCount = 0
         THEN /\ feature_tables' = feature_tables
              /\ Reported(log_messages, log_messages') # {}
              /\ \A r \in Reported(log_messages, log_messages') : r.level = "warning"
         ELSE raw_tree[class_index].save_csv =>
                SummedTable(feature_tables, feature_tables')]_vars

\* C14, amended: as above, but with no readable table the aggregation ends
\* with a warning, and it reports an error before it exactly when the read of
\* a table failed for another reason than the file being empty.
C14_SumOrFinalWarning ==
  [][AggregateStep =>
       IF ReadableCount = 0
         THEN /\ feature_tables' = feature_tables
              /\ Last(log_messages').level = "warning"
              /\ \A r \in Reported(log_messages, log_messages') :
                   \/ r.level = "warning"
                   \/ r = [level |-> "error", event |-> "Error reading feature file"]
              /\ (\E r \in Reported(log_messages, log_messages') : r.level = "error")
                   <=> raw_tree[class_index].table_fault \notin {"", "EmptyDataError"}
         ELSE raw_tree[class_index].save_csv =>
                SummedTable(feature_tables, feature_tables')]_vars

\* C14 witness: the first class had the tables of two recordings, of two rows
\* and of one row, and its per-class table has three rows
C14_ThreeRows ==
  /\ batch_pc = "done"
  /\ Cardinality(Glob(feature_tables, "classA")) = 2
  /\ \E t \in TablesOf("classA", "rec1") : Len(t.rows) = 2
  /\ \E t \in TablesOf("classA", "rec2") : Len(t.rows) = 1
  /\ \E t \in ClassTables(feature_tables, 0) : Len(t.rows) = 3

\* The per-file tables of the data files of a listing, from entry k on, in
\* the order of the listing
RECURSIVE TablesInListingOrder(_, _)
TablesInListingOrder(listing, k) ==
  IF k > Len(listing) THEN << >>
  ELSE LET own == { t \in Matched :
                      t.path = CsvOutputPath(<< class_subdirs[class_index],
                                                listing[k].file_name_no_ext >>, 1) }
       IN (IF Lower(listing[k].file_extension) \in DataExtensions /\ own # {}
             THEN << CHOOSE t \in own : TRUE >>
             ELSE << >>)
            \o TablesInListingOrder(listing, k + 1)

\* The set of the elements of a sequence
Range(seq) == { seq[k] : k \in 1..Len(seq) }

\* C15: the rows of the per-class table are the rows of the per-file tables
\* in the order in which the class's files were listed for processing, and
\* the rows of one file are in segment order.  Stated for a class whose
\* tables all come from files of the listing with names of their own, and
\* whose reads and write succeed.
C15_DiscoveryOrder ==
  [][(/\ AggregateStep
      /\ raw_tree[class_index].table_fault = ""
      /\ raw_tree[class_index].save_csv
      /\ Matched # {}
      /\ Matched = Range(TablesInListingOrder(directory_listing, 1))
      /\ Cardinality(Matched) = Len(TablesInListingOrder(directory_listing, 1))) =>
       /\ \A t \in ClassTables(feature_tables', loop_class_id) :
            t.rows = Concat(TablesInListingOrder(directory_listing, 1))
       /\ \A m \in Matched :
            \A j \in 1..(Len(m.rows) - 1) :
              SegmentOf(m.rows[j])[1] < SegmentOf(m.rows[j + 1])[1]]_vars

\* Aggregation has run for every class whose directory was listed with at
\* least one entry
AllClassesAggregated ==
  \A k \in 1..Len(raw_tree) :
    (raw_tree[k].listing = "ok" /\ raw_tree[k].files # << >>)
      => raw_tree[k].name \in AggregatedClasses

\* The batch is at a statement from which one of its steps continues: the
\* guards of the steps of NextBatch
CanStep ==
  \/ batch_pc \in {"entry", "classes", "files"}
  \/ batch_pc = "file" /\ file_pc \in {"read", "filter", "labels", "done"}
  \/ batch_pc = "file" /\ file_pc = "extract"
       /\ pc \in {"entry", "loop", "returned", "raised"}

\* C16: whatever fails while a file is processed (a read, a text column, an
\* estimator, a write), the batch is never cut short: until it is over it
\* always has a next step to take, and when it is over every data file of
\* every class has been handed to process_single_data_file and the
\* aggregation of every class with files has run.
C16_BatchCompletes ==
  /\ batch_pc # "done" => CanStep
  /\ batch_pc = "done" => AllFilesCalled /\ AllClassesAggregated

\* C16 witness: the batch is over; an estimator raised on the first file of
\* the first class, the second file has its table, so has the file of the
\* second class, and both classes were aggregated
C16_FailureContained ==
  /\ batch_pc = "done"
  /\ Len(raw_tree) = 2
  /\ Len(raw_tree[1].files) = 2
  /\ raw_tree[1].files[1].io.features = 1
  /\ TablesOf("classA", "rec1") = {}
  /\ TablesOf("classA", "rec2") # {}
  /\ TablesOf("classB", "rec2") # {}
  /\ AggregatedClasses = {"classA", "classB"}
  /\ \E k \in 1..Len(log_messages) :
       log_messages[k] = [level |-> "error", event |-> "Critical error"]

\* The windows of the current call that passed the validity test
AcceptedWindows == { k \in 1..Len(visited) : visited[k].valid }

\* C17: a table is written by one step, and only from rows that are complete
\* in memory: a per-file table is written only after extract_features has
\* returned, with one row for every accepted window of the whole file; a
\* per-class table is written with all the rows of the tables that were read.
\* A file on which an estimator raised gets no step that changes a table.
C17_NoPartialTable ==
  [][feature_tables' # feature_tables =>
       \/ /\ file_pc = "extract"
          /\ pc = "returned"
          /\ i > number_of_segments
          /\ Len(feature_results_list) = Cardinality(AcceptedWindows)
          /\ feature_tables' =
               Written(feature_tables,
                       [path    |-> CsvOutputPath(<< class_subdir_name, file_name_no_ext >>, 1),
                        columns |-> column_names(FALSE),
                        rows    |-> feature_results_list])
       \/ /\ AggregateStep
          /\ \E t \in feature_tables' :
               /\ feature_tables' = Written(feature_tables, t)
               /\ t.path = CsvOutputPath(NatStr(loop_class_id), 0)
               /\ Len(t.rows) \in ReadableSums]_vars

\* C17 witness: an estimator raised on the second accepted segment of a file;
\* the file is done, one feature vector is in memory, and no table of that
\* file is in the tree
C17_RaisedAfterOneRow ==
  /\ batch_pc = "file"
  /\ file_pc = "done"
  /\ pc = "raised"
  /\ Len(feature_results_list) = 1
  /\ TablesOf(class_subdir_name, file_name_no_ext) = {}

\* C18: the output tree only grows: every artifact that exists keeps its
\* path and its content through every step, whatever files and classes are
\* processed, also when two files of a class share their name without the
\* extension and when the tree holds the artifacts of an earlier run.
C18_AppendOnly ==
  [][/\ \A f \in filtered_files : f \in filtered_files'
     /\ \A t \in feature_tables : t \in feature_tables']_vars

\* The file being processed has no rows, or no columns: read_csv raises
\* EmptyDataError for a file without columns
EmptyInput ==
  /\ batch_pc = "file"
  /\ \/ io.read = "EmptyDataError"
     \/ io.read = "ok" /\ (input_file.len = 0 \/ input_file.columns = {})

\* C19: a file with zero rows or zero columns is skipped with a warning: no
\* step of it starts the filter or changes a filtered artifact or a table,
\* its last message is a warning, and the batch ends with every data file
\* handed to process_single_data_file.
C19_EmptyFileSkipped ==
  /\ [](EmptyInput /\ file_pc = "done" => Last(log_messages).level = "warning")
  /\ [][EmptyInput =>
          /\ file_pc' \notin {"filter", "labels", "extract"}
          /\ filtered_files' = filtered_files
          /\ feature_tables' = feature_tables
          /\ \A k \in (Len(log_messages) + 1)..Len(log_messages') :
               log_messages'[k].level # "error"]_vars
  /\ [](batch_pc = "done" => AllFilesCalled)

\* C19 witness: the batch is over, the tree was empty at its start; the first
\* file of the class had a header and no rows and has left nothing, and the
\* second has its filtered signal and its table
C19_NextFileAfterEmpty ==
  /\ batch_pc = "done"
  /\ raw_tree # << >>
  /\ Len(raw_tree[1].files) = 2
  /\ raw_tree[1].files[1].file = HeaderOnly
  /\ raw_tree[1].files[1].file_extension = ".csv"
  /\ TablesOf("classA", "rec1") = {}
  /\ \A f \in filtered_files : f.path = FilteredPath("classA", "rec2")
  /\ filtered_files # {}
  /\ TablesOf("classA", "rec2") # {}

\* The position of a class in the class list
ClassOrder(name) == CHOOSE k \in 1..Len(class_subdirs) : class_subdirs[k] = name

\* The per-class tables and the per-file tables of an output tree
AllClassTables(tree) == { t \in tree : Len(t.path) # 5 }
AllFileTables(tree) == { t \in tree : Len(t.path) = 5 }

\* The step taken is the aggregation of a class
AggregationTaken(before, after) ==
  Len(after) = Len(before) + 1 /\ Last(after).op = "aggregate"

\* Every data file of the listing of class number k was handed to
\* process_single_data_file
ClassFilesCalled(k) ==
  \A index \in 1..Len(raw_tree[k].files) :
    Lower(raw_tree[k].files[index].file_extension) \in DataExtensions
      => << raw_tree[k].name, index >> \in FileCalls

\* C22: calls of process_single_data_file and aggregations follow the class
\* order, and the aggregation of a class is the last call for that class, so
\* a class is aggregated at most once and before any file of a later class;
\* an aggregation runs when no file is in progress and every data file of
\* the class was processed; a per-class table changes only in an
\* aggregation; within a file the filtered artifact is written before
\* extract_features is called and the per-file table only after it returned.
C22_StrictSequence ==
  /\ [](\A a, b \in 1..Len(calls) :
          a < b =>
            /\ ClassOrder(calls[a].class) <= ClassOrder(calls[b].class)
            /\ calls[a].op = "aggregate" =>
                 ClassOrder(calls[a].class) < ClassOrder(calls[b].class))
  /\ [][AggregationTaken(calls, calls') =>
          /\ batch_pc = "files"
          /\ file_pc \in {"idle", "done"}
          /\ ClassFilesCalled(class_index)]_vars
  /\ [][AllClassTables(feature_tables') # AllClassTables(feature_tables) =>
          AggregationTaken(calls, calls')]_vars
  /\ [][filtered_files' # filtered_files =>
          file_pc = "filter" /\ file_pc' = "labels" /\ pc' = pc]_vars
  /\ [](batch_pc = "file" /\ file_pc = "extract" =>
          \E f \in filtered_files :
            /\ f.path = FilteredPath(class_subdir_name, file_name_no_ext)
            /\ f.samples = RunsLen(processed_signal_data.filtered))
  /\ [][AllFileTables(feature_tables') # AllFileTables(feature_tables) =>
          file_pc = "extract" /\ pc = "returned" /\ file_pc' = "done"]_vars

\* C22 witness: two classes were processed; the calls are the two files of
\* the first class, its aggregation, the file of the second class and its
\* aggregation, and both per-class tables exist
C22_TwoClassesInTurn ==
  /\ batch_pc = "done"
  /\ Len(calls) = 5
  /\ [k \in 1..5 |-> calls[k].op] =
       << "file", "file", "aggregate", "file", "aggregate" >>
  /\ [k \in 1..5 |-> calls[k].class] =
       << "classA", "classA", "classA", "classB", "classB" >>
  /\ ClassTables(feature_tables, 0) # {}
  /\ ClassTables(feature_tables, 1) # {}

\* No data file of the listing of class number k can be read in this run
NoFileReadable(k) ==
  \A index \in 1..Len(raw_tree[k].files) :
    Lower(raw_tree[k].files[index].file_extension) \in DataExtensions
      => raw_tree[k].files[index].io.read # "ok"

\* C26: the per-class table an aggregation writes holds only rows of files
\* processed successfully in this run; in particular, when no data file of
\* the class could be read in this run, an aggregation that saves a table
\* saves one without rows.
C26_OnlyRowsOfThisRun ==
  [][(AggregationTaken(calls, calls') /\ NoFileReadable(class_index)
        /\ Last(log_messages').event = "Aggregated features saved") =>
       \A t \in ClassTables(feature_tables', loop_class_id) : t.rows = << >>]_vars

\* C27: the class identifier of the class at position k of the class list
\* is k - 1, for the class loop and for every file handed to
\* process_single_data_file; an aggregation changes no per-class table but
\* df<k-1>.csv; and every row of a per-class table an aggregation saves
\* carries the identifier that names the table.
C27_ClassIdByPosition ==
  /\ [](batch_pc \in {"classes", "files", "file"} => loop_class_id = class_index - 1)
  /\ [](batch_pc = "file" => file_class_id = class_index - 1)
  /\ [][AggregationTaken(calls, calls') =>
          \A t \in AllClassTables(feature_tables') \ AllClassTables(feature_tables) :
            t.path = CsvOutputPath(NatStr(class_index - 1), 0)]_vars
  /\ [][(AggregationTaken(calls, calls')
           /\ Last(log_messages').event = "Aggregated features saved") =>
          \A t \in ClassTables(feature_tables', loop_class_id) :
            \A r \in 1..Len(t.rows) : t.rows[r][1] = loop_class_id]_vars

-----------------------------------------------------------------------------
(* The date label, from the file to the feature vector *)

\* The file read has a DATA column, under either of its two names
HasDateColumn == "DATA" \in raw_data_df.columns \/ "DATA " \in raw_data_df.columns

\* C20: the date label of a feature vector is the normalized date string of
\* the first sample of its segment when the file has a date column;
\* otherwise it is the placeholder, and that is the value extract_features
\* itself assigns when it is given no date list.
C20_OnePlaceholder ==
  file_pc \in {"extract", "done"} =>
    \A j \in OwnIndices :
      LET fv    == feature_results_list[j]
          start == SegmentOf(fv)[1]
      IN IF HasDateColumn
           THEN fv[4] = FormattedDateEntry(ElemAt(raw_data_df.DATA, start))
           ELSE fv[4] = FormattedDate(PyIntValue(0), start)

-----------------------------------------------------------------------------
(* The sample rate, from the filter to the feature extraction *)

\* C24: while extract_features runs on the filtered signal of a file, its
\* sample rate (used for points_per_segment and passed to welch) is the
\* sample rate apply_filters_and_save used to normalize the notch and
\* bandpass frequencies of that file.
C24_OneSampleRate ==
  file_pc = "extract" =>
    /\ sample_rate = FilterSampleRate
    /\ pc # "entry" =>
         points_per_segment = PointsPerSegment(FilterSampleRate, minute_segment_length)

-----------------------------------------------------------------------------
(* Properties of _adjust_minute_representation *)

\* C3: for every hour H in 0..23 a value strictly between H*100+60 and
\* (H+1)*100 becomes (H+1)*100, a value above 2359 becomes 0, every other
\* value is unchanged.  Where the first two cases overlap (2361..2399) either
\* result is taken as meant.
C3_Renormalization ==
  adjust_pc = "done" =>
    LET hour == minute_value \div 100
    IN IF hour \in 0..23 /\ minute_value > hour * 100 + 60
         THEN \/ adjusted_minute = (hour + 1) * 100
              \/ minute_value > 2359 /\ adjusted_minute = 0
         ELSE IF minute_value > 2359
           THEN adjusted_minute = 0
           ELSE adjusted_minute = minute_value

====
